---- MODULE Spec2Model ----
(***************************************************************************)
(* Award-aware retrieval and filtering pipeline of the Developer           *)
(* Inspiration Assistant: the query-time pipeline of ask_assistant         *)
(* (src/assistant.py, src/app.py) and the award normalizer / extractor     *)
(* (src/count_all_awards.py, src/ingest.py).                               *)
(*                                                                         *)
(* Python strings are TLA+ strings; TLC evaluates Len, SubSeq and \o on    *)
(* them, so every string function below works character by character.     *)
(***************************************************************************)
EXTENDS Integers, Sequences, FiniteSets, TLC

\* ------------------------------------------------------------------------
\* Python values and string primitives
\* ------------------------------------------------------------------------

\* Python's None, and a metadata key that is absent from a dict.  TLC compares
\* a string only with a string, so both are strings no input contains.
None == "<None>"
Missing == "<missing>"

Chr(s, i) == SubSeq(s, i, i)

Uppers == "ABCDEFGHIJKLMNOPQRSTUVWXYZ"
Lowers == "abcdefghijklmnopqrstuvwxyz"

\* c occurs in the character class cls
InClass(c, cls) == \E i \in 1..Len(cls) : Chr(cls, i) = c

UpperSet == {Chr(Uppers, i) : i \in 1..Len(Uppers)}

LowerOf == [c \in UpperSet |-> Chr(Lowers, CHOOSE i \in 1..Len(Uppers) : Chr(Uppers, i) = c)]

LowerChar(c) == IF c \in UpperSet THEN LowerOf[c] ELSE c

\* str.lower(): character by character (the string is halved so that the
\* evaluation of a long text stays shallow)
RECURSIVE Lower(_)
Lower(s) ==
    IF Len(s) <= 1 THEN LowerChar(s)
    ELSE Lower(SubSeq(s, 1, Len(s) \div 2)) \o Lower(SubSeq(s, Len(s) \div 2 + 1, Len(s)))

\* the characters \s matches and str.strip() strips
IsSpace(c) == c \in {" ", "\t", "\n", "\r"}

\* str.strip()
RECURSIVE LStrip(_)
LStrip(s) == IF s # "" /\ IsSpace(Head(s)) THEN LStrip(Tail(s)) ELSE s

RECURSIVE RStrip(_)
RStrip(s) ==
    IF s # "" /\ IsSpace(Chr(s, Len(s))) THEN RStrip(SubSeq(s, 1, Len(s) - 1)) ELSE s

Strip(s) == RStrip(LStrip(s))

\* t in s
Contains(s, t) == \E i \in 1..(Len(s) - Len(t) + 1) : SubSeq(s, i, i + Len(t) - 1) = t

\* s.startswith(t)
StartsWith(s, t) == Len(t) <= Len(s) /\ SubSeq(s, 1, Len(t)) = t

\* s.split(sep) for a non-empty separator: cut at the leftmost occurrences
RECURSIVE SplitOn(_, _)
SplitOn(s, sep) ==
    IF ~Contains(s, sep) THEN <<s>>
    ELSE LET i == CHOOSE k \in 1..(Len(s) - Len(sep) + 1) :
                      /\ SubSeq(s, k, k + Len(sep) - 1) = sep
                      /\ \A j \in 1..(k - 1) : SubSeq(s, j, j + Len(sep) - 1) # sep
         IN <<SubSeq(s, 1, i - 1)>> \o SplitOn(SubSeq(s, i + Len(sep), Len(s)), sep)

\* sep.join(parts)
RECURSIVE Join(_, _)
Join(parts, sep) ==
    IF parts = <<>> THEN ""
    ELSE IF Len(parts) = 1 THEN parts[1]
    ELSE parts[1] \o sep \o Join(Tail(parts), sep)

\* seq[:n]
Take(seq, n) == SubSeq(seq, 1, IF Len(seq) < n THEN Len(seq) ELSE n)

\* ------------------------------------------------------------------------
\* Similarity ratio (difflib.SequenceMatcher, fuzzywuzzy.fuzz.ratio)
\* ------------------------------------------------------------------------

\* a[i..i+k-1] = b[j..j+k-1]
IsBlock(a, b, i, j, k) ==
    /\ i + k - 1 <= Len(a)
    /\ j + k - 1 <= Len(b)
    /\ SubSeq(a, i, i + k - 1) = SubSeq(b, j, j + k - 1)

\* length of the longest common prefix of a[i..] and b[j..]
RECURSIVE PrefixLen(_, _, _, _)
PrefixLen(a, b, i, j) ==
    IF i > Len(a) \/ j > Len(b) \/ Chr(a, i) # Chr(b, j) THEN 0
    ELSE 1 + PrefixLen(a, b, i + 1, j + 1)

\* length of the longest block common to a and b (0 when there is none)
LongestLen(a, b) ==
    LET ks == {PrefixLen(a, b, i, j) : i \in 1..Len(a), j \in 1..Len(b)}
    IN CHOOSE k \in ks \cup {0} : \A m \in ks : m <= k

\* SequenceMatcher.find_longest_match: of the longest blocks a[i..i+k-1] =
\* b[j..j+k-1] the one that starts earliest in a and, of those, earliest in b;
\* then get_matching_blocks recurses on the pieces to the left and to the right
\* of it.  MatchCount is the sum of the block sizes.  (No character is junk:
\* isjunk is None and the autojunk heuristic needs 200 characters.)
RECURSIVE MatchCount(_, _)
MatchCount(a, b) ==
    IF a = "" \/ b = "" THEN 0
    ELSE LET k == LongestLen(a, b)
         IN IF k = 0 THEN 0
            ELSE LET i == CHOOSE x \in 1..Len(a) :
                              /\ \E y \in 1..Len(b) : IsBlock(a, b, x, y, k)
                              /\ \A w \in 1..(x - 1) :
                                    \A y \in 1..Len(b) : ~IsBlock(a, b, w, y, k)
                     j == CHOOSE y \in 1..Len(b) :
                              /\ IsBlock(a, b, i, y, k)
                              /\ \A w \in 1..(y - 1) : ~IsBlock(a, b, i, w, k)
                 IN k + MatchCount(SubSeq(a, 1, i - 1), SubSeq(b, 1, j - 1))
                      + MatchCount(SubSeq(a, i + k, Len(a)), SubSeq(b, j + k, Len(b)))

\* int(round(num / den)) for num >= 0, den > 0: Python 3 rounds a half to even
RoundHalfEven(num, den) ==
    LET q == num \div den
        r == num % den
    IN IF 2 * r < den THEN q
       ELSE IF 2 * r > den THEN q + 1
       ELSE IF q % 2 = 0 THEN q ELSE q + 1

\* the literal 70 of `fuzz.ratio(...) > 70`, and of `ratio() > 0.7` as a percentage
FUZZY_THRESHOLD == 70

\* fuzz.ratio for m matched characters out of t = len(s1) + len(s2) > 0:
\* utils.intr(100 * SequenceMatcher.ratio()), ratio() being 2.0 * m / t
FuzzPercent(m, t) == RoundHalfEven(200 * m, t)

\* `difflib.SequenceMatcher(None, award_normalized, a).ratio() > 0.7`:
\* 2.0 * m / t > 0.7, the float quotient being the correctly rounded 2m/t
DifflibAccepts(m, t) == 200 * m > FUZZY_THRESHOLD * t

\* fuzz.ratio(s1, s2) with its decorators: equal strings score 100, an empty
\* string scores 0
FuzzRatio(s1, s2) ==
    IF s1 = s2 THEN 100
    ELSE IF s1 = "" \/ s2 = "" THEN 0
    ELSE FuzzPercent(MatchCount(s1, s2), Len(s1) + Len(s2))

\* ------------------------------------------------------------------------
\* ask_assistant (src/assistant.py; src/app.py has the same retrieval, filter
\* and deduplication code)
\* ------------------------------------------------------------------------

\* default of the parameter top_k
top_k == 500

\* `unique_docs[:5]`
MAX_PROJECTS == 5

\* a retrieved chunk: page_content and the metadata keys the function reads;
\* "awards" may be absent (Missing), "id" may be absent (Missing)
Doc(id, awards, content) ==
    [id |-> id, awards |-> awards, title |-> "t", page_content |-> content]

VARIABLES
    query,             \* parameter: the raw user query
    award,             \* parameter: None or a string
    FUZZY_AVAILABLE,   \* module flag set by the import of fuzzywuzzy
    index_hits,        \* what the index ranks for the text it is sent
    pc,                \* position in ask_assistant
    award_normalized,
    searches,          \* the similarity searches issued to the index so far
    docs,
    i,                 \* position of the running for loop
    filtered_docs,
    fuzzy_consulted,   \* positions of docs the fuzzy branch was evaluated for
    seen_ids,
    unique_docs,
    context,
    response

askVars == <<query, award, FUZZY_AVAILABLE, index_hits, pc, award_normalized,
             searches, docs, i, filtered_docs, fuzzy_consulted, seen_ids,
             unique_docs, context, response>>

\* a second call of ask_assistant that is in progress while the first one
\* runs: its arguments and locals, [pc |-> "idle"] when there is none
VARIABLE parked

\* the two runs of the fuzzy tier that are compared, one per backend
VARIABLES
    cmp_target,        \* award_normalized
    cmp_name,          \* one name of awards_str.split(" | ")
    with_fuzzywuzzy,   \* the test of line 108, None until it ran
    with_difflib       \* the test of line 111, None until it ran

backendVars == <<cmp_target, cmp_name, with_fuzzywuzzy, with_difflib>>

\* two successive calls of normalize_award
VARIABLES
    n_module,          \* the module whose normalize_award is called
    n_arg,             \* the argument of the first call
    n_first,           \* its result
    n_second,          \* the result of the call on n_first
    n_pc

normVars == <<n_module, n_arg, n_first, n_second, n_pc>>

\* one call of extract_awards
VARIABLES
    x_module,          \* the module whose extract_awards is called
    x_desc,            \* argument desc
    x_json_awards,     \* argument json_awards as it was passed
    x_awards,          \* the list named awards in the function
    x_extracted,       \* the list named extracted (count_all_awards)
    x_k,               \* the pattern that is matched next
    x_result,          \* the list returned
    x_pc

extractVars == <<x_module, x_desc, x_json_awards, x_awards, x_extracted, x_k, x_result, x_pc>>

\* runs of ingest() against the corpus file and the index directory, and the
\* start of the assistant on that directory
VARIABLES
    data_file,         \* DATA_FILE: missing, unparsable, or a list of records
    chroma_db,         \* CHROMA_DIR: whether it exists and the chunks in it
    publications,      \* the records load_json returned
    pub_k,             \* the record the for loop of ingest is at
    documents,         \* the Document list of ingest
    batch_size,        \* argument batch_size of batch_add_documents
    batch_i,           \* loop variable i of batch_add_documents
    submissions,       \* the batches add_documents was called with, this run
    g_pc,
    g_error,           \* the exception that ended the run, None if none
    run_no,            \* the number of the run
    had_index,         \* whether this run found chunks in CHROMA_DIR
    assistant_store    \* the index assistant.py opened at its start

ingestVars == <<data_file, chroma_db, publications, pub_k, documents, batch_size, batch_i,
                submissions, g_pc, g_error, run_no, had_index,
                assistant_store>>

\* scrape_all (src/scraper.py, src/scrape_readytensor_final.py)
VARIABLES
    script,            \* which of the two scripts runs
    urls,              \* the sorted list of project URLs
    url_k,             \* the URL the for loop is at
    attempt,           \* loop variable of the retry loop
    data,              \* the record of the current URL, NoData for None
    all_records,
    award_records,
    goto_log,          \* the page.goto calls made for project pages so far
    output_all,        \* the file OUTPUT_ALL
    output_awards,     \* the file OUTPUT_AWARDS
    s_pc

scrapeVars == <<script, urls, url_k, attempt, data, all_records, award_records, goto_log,
                output_all, output_awards, s_pc>>

vars == <<askVars, parked, backendVars, normVars, extractVars, ingestVars, scrapeVars>>

\* what a step of ask_assistant leaves alone
notAskVars == <<parked, backendVars, normVars, extractVars, ingestVars, scrapeVars>>

\* `doc.metadata.get("awards", "none").lower()`
AwardsStr(doc) == Lower(IF doc.awards = Missing THEN "none" ELSE doc.awards)

\* mutation of ExactTier: the text content is not searched
ExactTierMetadataOnly(target, doc) == Contains(AwardsStr(doc), target)

\* `award_normalized in awards_str or award_normalized in content`
ExactTier(target, doc) ==
    \/ Contains(AwardsStr(doc), target)
    \/ Contains(Lower(doc.page_content), target)

\* mutation of NameAccepted: a ratio equal to the threshold is accepted
NameAcceptedAtThreshold(target, name, fuzzy) ==
    LET a == Lower(name)
    IN IF fuzzy THEN FuzzRatio(target, a) >= FUZZY_THRESHOLD
       ELSE 200 * MatchCount(target, a) >= FUZZY_THRESHOLD * (Len(target) + Len(a))

\* one name of the awards string against the target, by the backend in use:
\* `fuzz.ratio(award_normalized, a.lower()) > 70` or
\* `difflib.SequenceMatcher(None, award_normalized, a.lower()).ratio() > 0.7`
NameAccepted(target, name, fuzzy) ==
    LET a == Lower(name)
    IN IF fuzzy THEN FuzzRatio(target, a) > FUZZY_THRESHOLD
       ELSE DifflibAccepts(MatchCount(target, a), Len(target) + Len(a))

\* mutation of FuzzyTier: the awards string is compared as a whole
FuzzyTierUnsplit(target, doc, fuzzy) == NameAccepted(target, AwardsStr(doc), fuzzy)

\* `any(... for a in awards_str.split(" | "))`
FuzzyTier(target, doc, fuzzy) ==
    LET names == SplitOn(AwardsStr(doc), " | ")
    IN \E n \in 1..Len(names) : NameAccepted(target, names[n], fuzzy)

\* mutation of NormalizeArg: the award is not stripped
NormalizeArgUnstripped(a) == IF a = None \/ a = "" THEN None ELSE Lower(a)

\* `award.strip().lower() if award else None`
NormalizeArg(a) == IF a = None \/ a = "" THEN None ELSE Lower(Strip(a))

\* truthiness of award_normalized
Truthy(x) == x # None /\ x # ""

\* mutation of SearchText: the raw query is searched for
SearchTextRaw(q, a) == q

\* the text handed to retriever.invoke: text_query (line 95) or query (line 126)
SearchText(q, a) == IF Truthy(NormalizeArg(a)) THEN NormalizeArg(a) ELSE q

\* lines 89-97 and 125-126: normalise the award, build the retriever with
\* search_kwargs {"k": top_k} and invoke it once
Retrieve ==
    /\ UNCHANGED notAskVars
    /\ pc = "start"
    /\ award_normalized' = NormalizeArg(award)
    /\ searches' = Append(searches,
                          [text |-> SearchText(query, award), k |-> top_k, filter |-> None])
    /\ docs' = Take(index_hits, top_k)
    /\ i' = 1
    /\ pc' = IF Truthy(NormalizeArg(award)) THEN "filter" ELSE "dedup"
    /\ UNCHANGED <<query, award, FUZZY_AVAILABLE, index_hits, filtered_docs,
                   fuzzy_consulted, seen_ids, unique_docs, context, response>>

\* mutation of AfterFilter: an accepted doc is put in front
AfterFilterPrepend(acc, doc, target, fuzzy) ==
    IF ExactTier(target, doc) \/ FuzzyTier(target, doc, fuzzy) THEN <<doc>> \o acc ELSE acc

\* the list `filtered_docs` after the loop body ran for doc (lines 104-114)
AfterFilter(acc, doc, target, fuzzy) ==
    IF ExactTier(target, doc) THEN Append(acc, doc)
    ELSE IF FuzzyTier(target, doc, fuzzy) THEN Append(acc, doc)
    ELSE acc

\* lines 101-114: one iteration of `for doc in docs`
FilterStep ==
    /\ UNCHANGED notAskVars
    /\ pc = "filter"
    /\ i <= Len(docs)
    /\ filtered_docs' = AfterFilter(filtered_docs, docs[i], award_normalized, FUZZY_AVAILABLE)
    /\ fuzzy_consulted' = IF ExactTier(award_normalized, docs[i]) THEN fuzzy_consulted
                          ELSE fuzzy_consulted \cup {i}
    /\ i' = i + 1
    /\ UNCHANGED <<query, award, FUZZY_AVAILABLE, index_hits, pc, award_normalized,
                   searches, docs, seen_ids, unique_docs, context, response>>

\* the filter loop is exhausted; the deduplication loop starts at line 117
FilterExit ==
    /\ UNCHANGED notAskVars
    /\ pc = "filter"
    /\ i > Len(docs)
    /\ pc' = "dedup"
    /\ i' = 1
    /\ UNCHANGED <<query, award, FUZZY_AVAILABLE, index_hits, award_normalized,
                   searches, docs, filtered_docs, fuzzy_consulted, seen_ids,
                   unique_docs, context, response>>

\* mutation of Candidates: the result of the filter is not used
CandidatesUnfiltered == docs

\* the list the deduplication loop iterates: filtered_docs (line 119) or docs
\* (line 130)
Candidates == IF Truthy(award_normalized) THEN filtered_docs ELSE docs

\* mutation of AfterDedup: seen_ids is not looked at
AfterDedupNoCheck(acc, seen, doc) == Append(acc, doc)

\* mutation of AfterDedup: a later chunk of a seen id replaces the kept one
AfterDedupKeepLast(acc, seen, doc) ==
    IF doc.id \notin seen THEN Append(acc, doc)
    ELSE [n \in 1..Len(acc) |-> IF acc[n].id = doc.id THEN doc ELSE acc[n]]

\* `unique_docs` after the loop body ran for doc (lines 120-121)
AfterDedup(acc, seen, doc) == IF doc.id \notin seen THEN Append(acc, doc) ELSE acc

\* lines 119-122 / 130-133: one iteration; `doc.metadata["id"]` raises KeyError
\* when the key is absent, which the except clause turns into the error string
DedupStep ==
    /\ UNCHANGED notAskVars
    /\ pc = "dedup"
    /\ i <= Len(Candidates)
    /\ LET doc == Candidates[i]
       IN IF doc.id = Missing
          THEN /\ pc' = "error"
               /\ response' = "Error while generating response: 'id'"
               /\ UNCHANGED <<unique_docs, seen_ids, i>>
          ELSE /\ unique_docs' = AfterDedup(unique_docs, seen_ids, doc)
               /\ seen_ids' = seen_ids \cup {doc.id}
               /\ i' = i + 1
               /\ UNCHANGED <<pc, response>>
    /\ UNCHANGED <<query, award, FUZZY_AVAILABLE, index_hits, award_normalized,
                   searches, docs, filtered_docs, fuzzy_consulted, context>>

\* mutation of Slice: the list is not cut
SliceAll(u) == u

\* `docs = unique_docs[:5]`
Slice(u) == Take(u, MAX_PROJECTS)

\* the deduplication loop is exhausted: line 123 / 134
DedupExit ==
    /\ UNCHANGED notAskVars
    /\ pc = "dedup"
    /\ i > Len(Candidates)
    /\ docs' = Slice(unique_docs)
    /\ pc' = "format"
    /\ UNCHANGED <<query, award, FUZZY_AVAILABLE, index_hits, award_normalized,
                   searches, i, filtered_docs, fuzzy_consulted, seen_ids,
                   unique_docs, context, response>>

\* one section of the context (line 137)
Section(doc) ==
    "Title: " \o doc.title \o "\nID: " \o doc.id \o "\nAwards: " \o doc.awards
        \o "\nContent: " \o doc.page_content

\* lines 137-154: format the context (`doc.metadata['awards']` raises KeyError
\* when the key is absent) and run the chain; the answer of the language model
\* is opaque
Answer ==
    /\ UNCHANGED notAskVars
    /\ pc = "format"
    /\ IF \E n \in 1..Len(docs) : docs[n].awards = Missing
       THEN /\ pc' = "error"
            /\ response' = "Error while generating response: 'awards'"
            /\ UNCHANGED context
       ELSE /\ context' = Join([n \in 1..Len(docs) |-> Section(docs[n])], "\n")
            /\ response' = "answer"
            /\ pc' = "done"
    /\ UNCHANGED <<query, award, FUZZY_AVAILABLE, index_hits, award_normalized,
                   searches, docs, i, filtered_docs, fuzzy_consulted, seen_ids,
                   unique_docs>>

\* ------------------------------------------------------------------------
\* Calls of ask_assistant that are explored
\* ------------------------------------------------------------------------

MaxNameLen == 3
MaxDocs == 3
MaxHits == 6

\* all strings of exactly n characters over the alphabet
RECURSIVE StringsOfLen(_, _)
StringsOfLen(alphabet, n) ==
    IF n = 0 THEN {""}
    ELSE {s \o c : s \in StringsOfLen(alphabet, n - 1), c \in alphabet}

\* award names of 1..MaxNameLen characters
ShortNames == UNION {StringsOfLen({"a", "b"}, n) : n \in 1..MaxNameLen}

\* the awards metadata ingest writes: "none", one name, or names joined by " | "
ShortAwards ==
    {"none"} \cup ShortNames \cup {x \o " | " \o y : x \in ShortNames, y \in ShortNames}

\* (1) one retrieved chunk against two targets: every short awards string (or
\*     no awards key) with a text that does not hold the target, and a text
\*     that holds it
SingleCalls ==
    [query : {"list aba"},
     award : {"aba", " Ab"},
     fuzzy : BOOLEAN,
     hits : {<<Doc("p1", aw, "x")>> : aw \in ShortAwards \cup {Missing}}
              \cup {<<Doc("p1", aw, "An ABA.")>> : aw \in {"none", "b", "ab"}}]

\* (2) up to MaxDocs chunks drawn from a pool, against the misspelt target
\*     "top prise": a fuzzy match, a match in the text only, a match in
\*     mixed-case metadata, a name at ratio 70 exactly, no id key
Pool ==
    { Doc("p1", "top prize", "Awards: top prize"),
      Doc("p2", "none", "Got the Top Prise."),
      Doc("p1", "Best Demo | Top Prise", "x"),
      Doc("p3", "top privacy", "x"),
      Doc(Missing, "top prize", "x") }

\* a similarity search returns each chunk of the index at most once
DistinctSeqsUpTo(S, n) ==
    UNION {{f \in [1..m -> S] : \A x, y \in 1..m : x # y => f[x] # f[y]} : m \in 0..n}

PoolCalls ==
    [query : {"tag 'Top Prise'"},
     award : {" Top Prise "},
     fuzzy : BOOLEAN,
     hits : DistinctSeqsUpTo(Pool, MaxDocs)]

\* (3) up to MaxHits chunks of publications 1, 2, ...; ids are compared for
\*     equality only, so each list is taken with its ids numbered in order of
\*     first occurrence.  Publication 2 carries no award, the others "Gold".
RECURSIVE IdLists(_)
IdLists(n) ==
    IF n = 0 THEN {<<>>}
    ELSE {Append(p[1], p[2]) :
            p \in {q \in IdLists(n - 1) \X (1..n) :
                     q[2] <= Cardinality({q[1][k] : k \in 1..Len(q[1])}) + 1}}

IdCalls ==
    [query : {"list projects"},
     award : {None, "gold"},
     fuzzy : {TRUE},
     hits : {[n \in 1..Len(ids) |->
                 Doc("p" \o ToString(ids[n]), IF ids[n] = 2 THEN "none" ELSE "Gold",
                     "c" \o ToString(n))] :
                ids \in UNION {IdLists(m) : m \in 0..MaxHits}}]

\* (4) the nine candidates with ids A,A,B,C,C,C,D,E,F, all award winners
ExampleHits ==
    LET ids == <<"A", "A", "B", "C", "C", "C", "D", "E", "F">>
    IN [n \in 1..Len(ids) |-> Doc(ids[n], "best overall project", "chunk " \o ToString(n))]

ExampleCalls ==
    [query : {"list projects"},
     award : {None, "", "  ", "best overall project", " Best Overall PROJECT "},
     fuzzy : BOOLEAN,
     hits : {ExampleHits}]

\* no call of ask_assistant is under way
AskIdle ==
    /\ query = "" /\ award = None /\ FUZZY_AVAILABLE = TRUE /\ index_hits = <<>>
    /\ pc = "idle" /\ award_normalized = None /\ searches = <<>> /\ docs = <<>>
    /\ i = 1 /\ filtered_docs = <<>> /\ fuzzy_consulted = {} /\ seen_ids = {}
    /\ unique_docs = <<>> /\ context = "" /\ response = None
    /\ parked = [pc |-> "idle"]

BackendIdle ==
    /\ cmp_target = "" /\ cmp_name = "" /\ with_fuzzywuzzy = None /\ with_difflib = None

NormIdle ==
    /\ n_module = "" /\ n_arg = None /\ n_first = None /\ n_second = None /\ n_pc = "idle"

IngestIdle ==
    /\ data_file = [state |-> "missing", records |-> <<>>]
    /\ chroma_db = [exists |-> FALSE, chunks |-> <<>>]
    /\ publications = <<>> /\ pub_k = 1 /\ documents = <<>> /\ batch_size = 1
    /\ batch_i = 0 /\ submissions = <<>> /\ g_pc = "idle" /\ g_error = None /\ run_no = 0
    /\ had_index = FALSE
    /\ assistant_store = [loaded |-> FALSE, chunks |-> <<>>]

\* the file an output path names: absent, or holding a list of records
NoFile == [exists |-> FALSE, records |-> <<>>]

\* the value None of the variable `data`
NoData == [is_none |-> TRUE]

\* no run of a scraper is under way
ScrapeIdle ==
    /\ script = "" /\ urls = <<>> /\ url_k = 1 /\ attempt = 1 /\ data = NoData
    /\ all_records = <<>> /\ award_records = <<>> /\ goto_log = <<>>
    /\ output_all = NoFile /\ output_awards = NoFile /\ s_pc = "idle"

ExtractIdle ==
    /\ x_module = "" /\ x_desc = None /\ x_json_awards = [is_none |-> TRUE, items |-> <<>>]
    /\ x_awards = <<>> /\ x_extracted = <<>> /\ x_k = 1 /\ x_result = <<>>
    /\ x_pc = "idle"

AskInit ==
    /\ \E c \in SingleCalls \cup PoolCalls \cup IdCalls \cup ExampleCalls :
          /\ query = c.query
          /\ award = c.award
          /\ FUZZY_AVAILABLE = c.fuzzy
          /\ index_hits = c.hits
    /\ pc = "start"
    /\ award_normalized = None
    /\ searches = <<>>
    /\ docs = <<>>
    /\ i = 1
    /\ filtered_docs = <<>>
    /\ fuzzy_consulted = {}
    /\ seen_ids = {}
    /\ unique_docs = <<>>
    /\ context = ""
    /\ response = None
    /\ parked = [pc |-> "idle"]

Init == AskInit /\ BackendIdle /\ NormIdle /\ ExtractIdle /\ IngestIdle /\ ScrapeIdle

Next ==
    \/ Retrieve
    \/ FilterStep
    \/ FilterExit
    \/ DedupStep
    \/ DedupExit
    \/ Answer

Spec == Init /\ [][Next]_vars

\* ------------------------------------------------------------------------
\* Properties of ask_assistant
\* ------------------------------------------------------------------------

\* the candidates the retriever returned, and the target of the award filter
Retrieved == Take(index_hits, 500)

FilterActive == award # None /\ Strip(award) # ""

Target == Lower(Strip(award))

\* how many candidates the filter loop has decided
Decided ==
    IF ~FilterActive \/ pc = "start" THEN 0
    ELSE IF pc = "filter" THEN i - 1
    ELSE Len(Retrieved)

Accepted(k) == \E n \in 1..Len(filtered_docs) : filtered_docs[n] = Retrieved[k]

\* the awards metadata of a candidate, lowercased ("none" when it has none)
MetaLower(d) == Lower(IF d.awards = Missing THEN "none" ELSE d.awards)

\* t occurs in s
OccursIn(t, s) == \E p \in 1..(Len(s) - Len(t) + 1) : SubSeq(s, p, p + Len(t) - 1) = t

\* the target t is literally in the awards metadata or in the text
LiterallyPresent(t, d) == OccursIn(t, MetaLower(d)) \/ OccursIn(t, Lower(d.page_content))

\* the names of the awards metadata
MetaNames(d) == LET parts == SplitOn(MetaLower(d), " | ") IN {parts[n] : n \in 1..Len(parts)}

\* the exact similarity ratio of the target t and a name, as a percentage, is
\* above / equal to 70:  100 * 2M / (|t| + |name|)  against 70
RatioAbove70(t, name) == 200 * MatchCount(t, name) > 70 * (Len(t) + Len(name))

RatioIs70(t, name) == 200 * MatchCount(t, name) = 70 * (Len(t) + Len(name))

BestAbove70(t, d) == \E name \in MetaNames(d) : RatioAbove70(t, name)

BestIs70(t, d) ==
    /\ \E name \in MetaNames(d) : RatioIs70(t, name)
    /\ ~BestAbove70(t, d)

\* C1: a candidate whose lowercased awards metadata or text contains the
\* lowercased target is accepted whatever its fuzzy ratio, and the fuzzy tier
\* is consulted only for candidates that fail that test.
C1_ExactTierShortCircuits ==
    LET t == Target
    IN \A k \in 1..Decided :
          LiterallyPresent(t, Retrieved[k]) => Accepted(k) /\ k \notin fuzzy_consulted

\* a literally matching candidate whose names all score 70 or less was accepted
C1_Witness ==
    /\ pc = "done"
    /\ LET t == Target
       IN \E k \in 1..Decided :
             /\ LiterallyPresent(t, Retrieved[k])
             /\ ~BestAbove70(t, Retrieved[k])
             /\ Accepted(k)

\* C2: a candidate that fails the exact tier is accepted only if the best
\* ratio between the target and a name of its awards metadata is strictly
\* greater than 70; a best ratio of exactly 70 is rejected.
C2_FuzzyBoundaryStrict ==
    LET t == Target
    IN \A k \in 1..Decided :
          (~LiterallyPresent(t, Retrieved[k]) /\ ~BestAbove70(t, Retrieved[k]))
              => ~Accepted(k)

\* a candidate whose best ratio is exactly 70 was rejected by the difflib
\* backend, next to one the fuzzy tier accepted
C2_Witness ==
    /\ pc = "done"
    /\ ~FUZZY_AVAILABLE
    /\ LET t == Target
       IN /\ \E k \in 1..Decided :
                /\ ~LiterallyPresent(t, Retrieved[k])
                /\ BestIs70(t, Retrieved[k])
                /\ ~Accepted(k)
          /\ \E k \in 1..Decided :
                /\ ~LiterallyPresent(t, Retrieved[k])
                /\ Accepted(k)

\* the score the backend in use gives a name is above 70
ScoreAbove70(t, name) ==
    IF FUZZY_AVAILABLE THEN FuzzRatio(t, name) > 70 ELSE RatioAbove70(t, name)

PassesATier(t, d) == LiterallyPresent(t, d) \/ \E name \in MetaNames(d) : ScoreAbove70(t, name)

\* C3: the filtered list is exactly the candidates that pass the exact or the
\* fuzzy tier, each once, in the order of the candidate list.
C3_FilterKeepsExactlyThePassing ==
    FilterActive =>
        LET t == Target
            Passes(d) == PassesATier(t, d)
        IN filtered_docs = SelectSeq(Take(Retrieved, Decided), Passes)

\* a list was filtered that had a rejected candidate between one accepted by
\* the exact tier and one accepted by the fuzzy tier
C3_Witness ==
    /\ pc = "done"
    /\ FilterActive
    /\ LET t == Target
       IN \E a, b, c \in 1..Len(Retrieved) :
             /\ a < b /\ b < c
             /\ LiterallyPresent(t, Retrieved[a])
             /\ ~PassesATier(t, Retrieved[b])
             /\ ~LiterallyPresent(t, Retrieved[c]) /\ PassesATier(t, Retrieved[c])
             /\ Len(filtered_docs) = 2

\* the list the deduplicator is given, and the ids in a list
DedupInput == IF FilterActive THEN filtered_docs ELSE Retrieved

IdsOf(list) == [n \in 1..Len(list) |-> list[n].id]

FirstPositions(list) ==
    {k \in 1..Len(list) : \A m \in 1..(k - 1) : list[m].id # list[k].id}

\* C4: the kept documents are at most 5, no two share an id, and they appear
\* in the order in which their ids first occur in the candidate list.
C4_DedupInvariants ==
    pc \in {"format", "done"} =>
        /\ Len(docs) <= 5
        /\ \A p, q \in 1..Len(docs) : p # q => docs[p].id # docs[q].id
        /\ \A p \in 1..Len(docs) : \E k \in 1..Len(DedupInput) : DedupInput[k].id = docs[p].id
        /\ \A p, q \in 1..Len(docs) :
              p < q =>
                \E k \in FirstPositions(DedupInput) :
                    /\ DedupInput[k].id = docs[p].id
                    /\ \A m \in 1..k : DedupInput[m].id # docs[q].id

\* a candidate list with repeated ids and more than 5 distinct ids was cut to 5
C4_Witness ==
    /\ pc = "done"
    /\ Len(docs) = 5
    /\ Cardinality(FirstPositions(DedupInput)) > 5
    /\ Len(DedupInput) > Cardinality(FirstPositions(DedupInput))

\* the p-th smallest element of a set of positions
Nth(S, p) == CHOOSE k \in S : Cardinality({m \in S : m <= k}) = p

\* C5: the output is exactly the first occurrence of each of the first
\* min(5, u) distinct ids, in first-occurrence order; ids A,A,B,C,C,C,D,E,F
\* give exactly A,B,C,D,E.
C5_DedupResult ==
    pc \in {"format", "done"} =>
        LET firsts == FirstPositions(DedupInput)
            u == Cardinality(firsts)
            n == IF u < 5 THEN u ELSE 5
        IN /\ docs = [p \in 1..n |-> DedupInput[Nth(firsts, p)]]
           /\ IdsOf(DedupInput) = <<"A", "A", "B", "C", "C", "C", "D", "E", "F">>
                 => IdsOf(docs) = <<"A", "B", "C", "D", "E">>

\* the candidates with ids A,A,B,C,C,C,D,E,F went through the award filter and
\* the deduplicator
C5_Witness ==
    /\ pc = "done"
    /\ FilterActive
    /\ IdsOf(DedupInput) = <<"A", "A", "B", "C", "C", "C", "D", "E", "F">>
    /\ IdsOf(docs) = <<"A", "B", "C", "D", "E">>

\* C7: with an award filter the text sent to the index is the normalized award
\* phrase, without one it is the raw query; exactly one similarity search is
\* issued, with k = top_k and no pre-filter.
C7_SearchText ==
    IF pc = "start" THEN searches = <<>>
    ELSE /\ Len(searches) = 1
         /\ searches[1].text = (IF FilterActive THEN Target ELSE query)
         /\ searches[1].k = 500
         /\ searches[1].filter = None

\* a filtered call ended whose award phrase differs from the query and from the
\* award as given
C7_Witness ==
    /\ pc = "done"
    /\ FilterActive
    /\ query # Target
    /\ award # Target
    /\ searches[1].text = Target

\* ------------------------------------------------------------------------
\* The fuzzy tier with and without fuzzywuzzy (src/assistant.py lines 35-41,
\* 107-112): the same target and name decided once by each backend
\* ------------------------------------------------------------------------

MaxRatioLen == 19

\* c repeated n times
RECURSIVE Fill(_, _)
Fill(c, n) == IF n <= 0 THEN "" ELSE c \o Fill(c, n - 1)

\* targets and names of up to MaxRatioLen characters that share their first m
\* characters and nothing else; the target is not inside the name, so the
\* exact tier has failed
SharedPrefixPairs ==
    {<<SubSeq(Lowers, 1, m) \o Fill("1", la - m), SubSeq(Lowers, 1, m) \o Fill("2", lb - m)>> :
        <<la, lb, m>> \in {t \in (1..MaxRatioLen) \X (1..MaxRatioLen) \X (0..MaxRatioLen) :
                             t[3] < t[1] /\ t[3] <= t[2]}}

\* line 108 for one name, FUZZY_AVAILABLE being True
FuzzyTierWithFuzzywuzzy ==
    /\ with_fuzzywuzzy = None
    /\ with_fuzzywuzzy' = IF NameAccepted(cmp_target, cmp_name, TRUE) THEN "accept" ELSE "reject"
    /\ UNCHANGED <<cmp_target, cmp_name, with_difflib, askVars, parked, normVars, extractVars, ingestVars, scrapeVars>>

\* line 111 for the same name, FUZZY_AVAILABLE being False
FuzzyTierWithDifflib ==
    /\ with_difflib = None
    /\ with_difflib' = IF NameAccepted(cmp_target, cmp_name, FALSE) THEN "accept" ELSE "reject"
    /\ UNCHANGED <<cmp_target, cmp_name, with_fuzzywuzzy, askVars, parked, normVars, extractVars, ingestVars, scrapeVars>>

BackendInit ==
    /\ \E pair \in SharedPrefixPairs \cup {<<"best overall project", "best overall 2024">>} :
          cmp_target = pair[1] /\ cmp_name = pair[2]
    /\ with_fuzzywuzzy = None
    /\ with_difflib = None
    /\ AskIdle /\ NormIdle /\ ExtractIdle /\ IngestIdle /\ ScrapeIdle

BackendNext == FuzzyTierWithFuzzywuzzy \/ FuzzyTierWithDifflib

BackendSpec == BackendInit /\ [][BackendNext]_vars

\* C6: the fuzzy tier decides a target and a name the same way with the
\* difflib fallback (ratio > 0.7) as with fuzzywuzzy (fuzz.ratio > 70).
C6_BackendsAgree ==
    (with_fuzzywuzzy # None /\ with_difflib # None) => with_fuzzywuzzy = with_difflib

\* ------------------------------------------------------------------------
\* normalize_award (src/ingest.py lines 19-25, src/count_all_awards.py
\* lines 5-20)
\* ------------------------------------------------------------------------

\* re.sub(r"\s+", " ", s): every run of whitespace becomes one space
RECURSIVE CollapseWs(_)
CollapseWs(s) ==
    IF s = "" THEN ""
    ELSE IF IsSpace(Chr(s, 1))
         THEN " " \o CollapseWs(LStrip(s))
         ELSE Chr(s, 1) \o CollapseWs(Tail(s))

\* re.sub of a run of apostrophes and grave accents by ""; the grave accent
\* of the source cannot be written in a string here: the character "^" stands
\* for it and no input uses "^" for anything else
RECURSIVE RemoveQuotes(_)
RemoveQuotes(s) ==
    IF s = "" THEN ""
    ELSE IF Chr(s, 1) \in {"'", "^"}
         THEN RemoveQuotes(Tail(s))
         ELSE Chr(s, 1) \o RemoveQuotes(Tail(s))

\* a word character (\w of the regular expressions) stands at position p of s
WordAt(s, p) ==
    /\ p >= 1 /\ p <= Len(s)
    /\ \/ InClass(Chr(s, p), Lowers) \/ InClass(Chr(s, p), Uppers)
       \/ InClass(Chr(s, p), "0123456789") \/ Chr(s, p) = "_"

\* \b word \b matches s at position p (the word begins and ends with a word
\* character)
WholeWordAt(s, p, word) ==
    /\ p + Len(word) - 1 <= Len(s)
    /\ SubSeq(s, p, p + Len(word) - 1) = word
    /\ ~WordAt(s, p - 1)
    /\ ~WordAt(s, p + Len(word))

FILLERS == <<"at the", "for", "in", "with">>

STOP_TERMS ==
    {"it", "this", "because", "from", "classification", "usecases", "trending", "topics", "way"}

\* re.sub(r"\b(at the|for|in|with)\b", "", s) read from position p on: the
\* leftmost match is dropped and the scan resumes behind it
RECURSIVE RemoveFillersFrom(_, _)
RemoveFillersFrom(s, p) ==
    IF p > Len(s) THEN ""
    ELSE LET hits == {k \in 1..Len(FILLERS) : WholeWordAt(s, p, FILLERS[k])}
         IN IF hits # {}
            THEN LET first == CHOOSE k \in hits : \A other \in hits : k <= other
                 IN RemoveFillersFrom(s, p + Len(FILLERS[first]))
            ELSE Chr(s, p) \o RemoveFillersFrom(s, p + 1)

MIN_AWARD_LEN == 5
MAX_AWARD_TOKENS == 5

\* src/count_all_awards.py lines 9-13: the string the rejection test reads
CleanedAward(name) ==
    Strip(RemoveFillersFrom(RemoveQuotes(CollapseWs(Lower(Strip(name)))), 1))

\* src/count_all_awards.py lines 15-18: len(s) < 5, re.search of a stop term as
\* a whole word, re.search(r"\d+", s), len(s.split()) > 5
Rejected(s) ==
    \/ Len(s) < MIN_AWARD_LEN
    \/ \E p \in 1..Len(s) : \E term \in STOP_TERMS : WholeWordAt(s, p, term)
    \/ \E p \in 1..Len(s) : InClass(Chr(s, p), "0123456789")
    \/ Cardinality({p \in 1..Len(s) :
                     ~IsSpace(Chr(s, p)) /\ (p = 1 \/ IsSpace(Chr(s, p - 1)))}) > MAX_AWARD_TOKENS

\* src/count_all_awards.py normalize_award
normalize_award_count_all_awards(name) ==
    IF ~Truthy(name) THEN None
    ELSE LET cleaned == CleanedAward(name)
         IN IF Rejected(cleaned) THEN None ELSE cleaned

\* src/ingest.py normalize_award
normalize_award_ingest(name) ==
    IF ~Truthy(name) THEN None
    ELSE CollapseWs(Lower(Strip(name)))

normalize_award(module, name) ==
    IF module = "ingest" THEN normalize_award_ingest(name)
    ELSE normalize_award_count_all_awards(name)

\* ------------------------------------------------------------------------
\* The cue-phrase patterns of extract_awards (src/ingest.py lines 33-50,
\* src/count_all_awards.py lines 42-51), matched as re.findall matches them
\* ------------------------------------------------------------------------

\* the cue of each pattern, lower case (the patterns are IGNORECASE); the
\* fifth pattern of count_all_awards has six alternative cues

Cues(module) ==
    IF module = "ingest" THEN <<{"award"}, {"winner of"}, {"received"}, {"won"}>>
    ELSE <<{"award"}, {"winner of"}, {"received"}, {"won"},
           {"best", "most", "top", "outstanding", "innovative", "promising"}>>

\* the end of the cue matched at position p, 0 if none of the pattern's cues
\* matches there; low is the text in lower case (the alternatives of one
\* pattern are tried in their order; no two of them start with the same
\* letter)
CueEnd(low, p, cues) ==
    LET ends == {p + Len(cue) - 1 : cue \in {c \in cues :
                    /\ p + Len(c) - 1 <= Len(low)
                    /\ SubSeq(low, p, p + Len(c) - 1) = c}}
    IN IF ends = {} THEN 0 ELSE CHOOSE e \in ends : TRUE

\* the first position from p on that holds no whitespace (Len(s) + 1 if none)
RECURSIVE SkipSpaces(_, _)
SkipSpaces(s, p) == IF p <= Len(s) /\ IsSpace(Chr(s, p)) THEN SkipSpaces(s, p + 1) ELSE p

\* The places where the capture may begin behind a cue that ends at q - 1, in
\* the order the backtracking tries them: the optional separator taken and
\* the whitespace run taken whole, then one whitespace character fewer, ...;
\* then the separator not taken (pattern 1 only).  needSpace is the \s+ of the
\* fifth pattern of count_all_awards.
CaptureStarts(s, q, hasSep, needSpace) ==
    LET sepTaken == hasSep /\ q <= Len(s) /\ Chr(s, q) \in {":", "-"}
        q1 == IF sepTaken THEN q + 1 ELSE q
        last == SkipSpaces(s, q1)
        first == IF needSpace THEN q1 + 1 ELSE q1
        run == [n \in 1..(IF last >= first THEN last - first + 1 ELSE 0) |-> last - n + 1]
    IN IF sepTaken THEN run \o <<q>> ELSE run

MIN_CAPTURE == 5
MAX_CAPTURE == 40

\* (?=\s*(?:$|\n|\.|,|;)) at position p: behind some whitespace the text
\* ends or a terminator stands ($ also matches before a final newline, which
\* the \n alternative covers)
RECURSIVE LookaheadHolds(_, _)
LookaheadHolds(s, p) ==
    \/ p > Len(s)
    \/ Chr(s, p) \in {"\n", ".", ",", ";"}
    \/ IsSpace(Chr(s, p)) /\ LookaheadHolds(s, p + 1)

\* the number of capture characters of ingest from r on: [^\n.,;]+ is greedy
\* and nothing follows it
RECURSIVE IngestRun(_, _)
IngestRun(s, r) ==
    IF r <= Len(s) /\ Chr(s, r) \notin {"\n", ".", ",", ";"} THEN 1 + IngestRun(s, r + 1) ELSE 0

RECURSIVE CountRun(_, _)
CountRun(s, r) ==
    IF /\ r <= Len(s)
       /\ \/ InClass(Chr(s, r), Lowers) \/ InClass(Chr(s, r), Uppers)
          \/ IsSpace(Chr(s, r)) \/ Chr(s, r) = "-"
    THEN 1 + CountRun(s, r + 1) ELSE 0

\* the length of the capture that begins at r, 0 if none can: for
\* count_all_awards the longest of 5 to 40 class characters behind which
\* the lookahead holds
CaptureLen(module, s, r) ==
    IF module = "ingest" THEN IngestRun(s, r)
    ELSE LET most == IF CountRun(s, r) > MAX_CAPTURE THEN MAX_CAPTURE ELSE CountRun(s, r)
             lens == {n \in MIN_CAPTURE..most : LookaheadHolds(s, r + n)}
         IN IF lens = {} THEN 0 ELSE CHOOSE n \in lens : \A other \in lens : other <= n

\* the first start, in backtracking order, at which a capture can begin
RECURSIVE FirstCapture(_, _, _, _)
FirstCapture(module, s, starts, n) ==
    IF n > Len(starts) THEN <<0, 0>>
    ELSE IF starts[n] <= Len(s) /\ CaptureLen(module, s, starts[n]) > 0
         THEN <<starts[n], CaptureLen(module, s, starts[n])>>
         ELSE FirstCapture(module, s, starts, n + 1)

\* re.findall(pattern k, s, re.IGNORECASE) from position p on: the captures
\* of the leftmost matches, none overlapping the one before; low is s in
\* lower case, where the cues are looked for
RECURSIVE FindAllFrom(_, _, _, _, _)
FindAllFrom(module, k, s, low, p) ==
    IF p > Len(s) THEN <<>>
    ELSE LET e == CueEnd(low, p, Cues(module)[k])
             m == IF e = 0 THEN <<0, 0>>
                  ELSE FirstCapture(module, s, CaptureStarts(s, e + 1, k = 1, k = 5), 1)
         IN IF m[1] = 0 THEN FindAllFrom(module, k, s, low, p + 1)
            ELSE <<SubSeq(s, m[1], m[1] + m[2] - 1)>>
                     \o FindAllFrom(module, k, s, low, m[1] + m[2])

FindAll(module, k, s) == FindAllFrom(module, k, s, Lower(s), 1)

\* ------------------------------------------------------------------------
\* extract_awards (src/ingest.py lines 27-60, src/count_all_awards.py
\* lines 22-63)
\* ------------------------------------------------------------------------

\* a Python list argument, and None passed in its place
PyList(items) == [is_none |-> FALSE, items |-> items]
NoList == [is_none |-> TRUE, items |-> <<>>]

\* json_awards or []
OrEmpty(list) == IF list.is_none THEN <<>> ELSE list.items

\* mutation of AwardsIsCallersList: the function works on a copy
AwardsIsCopy(list) == FALSE

\* json_awards or [] is the caller's own list object, not a new list
AwardsIsCallersList(list) == ~list.is_none /\ list.items # <<>>

VALID_KEYWORDS ==
    {"best overall project", "most innovative project", "most promising innovation",
     "best technical implementation", "distinguished technical deep-dive",
     "the imagenet competition in 2012", "innovative approach", "outstanding contribution"}

\* any(vk in norm or norm in vk for vk in valid_keywords)
InVocabulary(norm) == \E vk \in VALID_KEYWORDS : Contains(norm, vk) \/ Contains(vk, norm)

\* [normalize_award(a) for a in raw], for each module
NormalizeAll(module, raw) == [n \in 1..Len(raw) |-> normalize_award(module, raw[n])]

\* the names a list of raw names adds to extracted (count_all_awards lines
\* 35-39 and 53-57): normalized, not None, within the vocabulary
Gated(raw) ==
    LET Keeps(norm) == norm # None /\ InVocabulary(norm)
    IN SelectSeq(NormalizeAll("count_all_awards", raw), Keeps)

\* the lists list(set(names)) can be: every name once, in any order
Orderings(names) ==
    LET S == {names[n] : n \in 1..Len(names)}
    IN {seq \in [1..Cardinality(S) -> S] : \A a, b \in 1..Cardinality(S) : seq[a] = seq[b] => a = b}

\* awards = json_awards or []; ingest returns them as they are when desc is
\* None or empty
ExtractBegin ==
    /\ x_pc = "start"
    /\ x_awards' = OrEmpty(x_json_awards)
    /\ IF x_module = "ingest"
       THEN IF ~Truthy(x_desc)
            THEN x_result' = OrEmpty(x_json_awards) /\ x_pc' = "done"
            ELSE x_result' = x_result /\ x_pc' = "patterns"
       ELSE x_result' = x_result /\ x_pc' = "tags"
    /\ UNCHANGED <<x_module, x_desc, x_json_awards, x_extracted, x_k>>
    /\ UNCHANGED <<askVars, parked, backendVars, normVars, ingestVars, scrapeVars>>

\* count_all_awards lines 34-39: the loop over the JSON awards
ExtractTags ==
    /\ x_pc = "tags"
    /\ x_extracted' = x_extracted \o Gated(x_awards)
    /\ x_pc' = "patterns"
    /\ UNCHANGED <<x_module, x_desc, x_json_awards, x_awards, x_k, x_result>>
    /\ UNCHANGED <<askVars, parked, backendVars, normVars, ingestVars, scrapeVars>>

\* one re.findall and what is done with its matches; re.findall raises
\* TypeError when desc is None, which count_all_awards does not exclude
ExtractPattern ==
    /\ x_pc = "patterns"
    /\ IF x_desc = None
       THEN x_pc' = "raised" /\ UNCHANGED <<x_awards, x_extracted, x_k>>
       ELSE /\ IF x_module = "ingest"
               THEN /\ x_awards' = x_awards \o NormalizeAll(x_module, FindAll(x_module, x_k, x_desc))
                    /\ x_extracted' = x_extracted
               ELSE /\ x_extracted' = x_extracted \o Gated(FindAll(x_module, x_k, x_desc))
                    /\ x_awards' = x_awards
            /\ x_k' = x_k + 1
            /\ x_pc' = IF x_k < Len(Cues(x_module)) THEN "patterns"
                       ELSE IF x_module = "ingest" THEN "explicit" ELSE "return"
    /\ UNCHANGED <<x_module, x_desc, x_json_awards, x_result>>
    /\ UNCHANGED <<askVars, parked, backendVars, normVars, ingestVars, scrapeVars>>

\* ingest lines 53-57: the two awards added when desc names them
ExtractExplicit ==
    /\ x_pc = "explicit"
    /\ x_awards' = x_awards
          \o (IF Contains(Lower(x_desc), "best overall project")
              THEN <<"best overall project">> ELSE <<>>)
          \o (IF Contains(Lower(x_desc), "most innovative project")
              THEN <<"most innovative project">> ELSE <<>>)
    /\ x_pc' = "return"
    /\ UNCHANGED <<x_module, x_desc, x_json_awards, x_extracted, x_k, x_result>>
    /\ UNCHANGED <<askVars, parked, backendVars, normVars, ingestVars, scrapeVars>>

\* list(set([a for a in awards if a])) of ingest, list(set(extracted)) of
\* count_all_awards
ExtractReturn ==
    /\ x_pc = "return"
    /\ x_result' \in Orderings(IF x_module = "ingest" THEN SelectSeq(x_awards, Truthy)
                               ELSE x_extracted)
    /\ x_pc' = "done"
    /\ UNCHANGED <<x_module, x_desc, x_json_awards, x_awards, x_extracted, x_k>>
    /\ UNCHANGED <<askVars, parked, backendVars, normVars, ingestVars, scrapeVars>>

\* ------------------------------------------------------------------------
\* Two successive calls of normalize_award
\* ------------------------------------------------------------------------

MaxWords == 3

\* the sequences of 1 to n elements of S
SeqsUpTo(S, n) == UNION {[1..k -> S] : k \in 1..n}

NormArgs ==
    {Join(ws, " ") :
        ws \in SeqsUpTo({"best", "for", "in", "at the", "this", "ai", "Project", "2nd", "it's"},
                        MaxWords)}
        \cup {None, "", "   ", "Best Overall Project", "  Best   Overall\tProject ",
              "one two three four five six", "Winner's Choice", "top^tool"}

NormalizeOnce ==
    /\ n_pc = "start"
    /\ n_first' = normalize_award(n_module, n_arg)
    /\ n_pc' = "once"
    /\ UNCHANGED <<n_module, n_arg, n_second, askVars, parked, backendVars, extractVars, ingestVars, scrapeVars>>

NormalizeAgain ==
    /\ n_pc = "once"
    /\ n_second' = normalize_award(n_module, n_first)
    /\ n_pc' = "twice"
    /\ UNCHANGED <<n_module, n_arg, n_first, askVars, parked, backendVars, extractVars, ingestVars, scrapeVars>>

NormInit ==
    /\ n_module \in {"ingest", "count_all_awards"}
    /\ n_arg \in NormArgs
    /\ n_first = None /\ n_second = None /\ n_pc = "start"
    /\ AskIdle /\ BackendIdle /\ ExtractIdle /\ IngestIdle /\ ScrapeIdle

NormNext == NormalizeOnce \/ NormalizeAgain

NormSpec == NormInit /\ [][NormNext]_vars

\* C8: normalize_award(normalize_award(x)) = normalize_award(x) for every
\* input x, in both modules.
C8_Idempotent == n_pc = "twice" => n_second = n_first

\* C9: normalize_award returns None when the cleaned string has fewer than 5
\* characters, more than 5 tokens, a digit or a stop-term, and the cleaned
\* string otherwise: "ai" and "this project" give None, "Best Overall
\* Project" gives "best overall project".
C9_RejectsOrReturnsCleaned ==
    (n_pc \in {"once", "twice"} /\ Truthy(n_arg)) =>
        /\ n_first = IF Rejected(CleanedAward(n_arg)) THEN None ELSE CleanedAward(n_arg)
        /\ n_arg = "ai" => n_first = None
        /\ n_arg = "this Project" => n_first = None
        /\ n_arg = "Best Overall Project" => n_first = "best overall project"

\* ------------------------------------------------------------------------
\* One call of extract_awards
\* ------------------------------------------------------------------------

MaxSentences == 2

Sentences ==
    <<"Award: Best Overall Project. ", "Winner of Most Innovative Project\n",
      "We won a prize, ", "It received support; ", "Best overall project 2024. ",
      "A most innovative project idea. ">>

\* descriptions made of up to MaxSentences different sentences, in the order
\* of the list, and the absent and the empty description
Descriptions ==
    {Join([k \in 1..Len(ix) |-> Sentences[ix[k]]], "") :
        ix \in {f \in SeqsUpTo(1..Len(Sentences), MaxSentences) :
                   \A m, n \in 1..Len(f) : m < n => f[m] < f[n]}}
        \cup {None, ""}

JsonAwards ==
    {NoList, PyList(<<>>), PyList(<<"Best Overall Project">>), PyList(<<"Trending">>),
     PyList(<<"Most Innovative Project", "most innovative project">>),
     PyList(<<"best overall project", "AI">>), PyList(<<"Trending", "Trending">>)}

ExtractInit ==
    /\ x_module \in {"ingest", "count_all_awards"}
    /\ x_desc \in Descriptions
    /\ x_json_awards \in JsonAwards
    /\ x_awards = <<>> /\ x_extracted = <<>> /\ x_k = 1 /\ x_result = <<>>
    /\ x_pc = "start"
    /\ AskIdle /\ BackendIdle /\ NormIdle /\ IngestIdle /\ ScrapeIdle

\* what the list object the caller passed as json_awards holds at this point
\* of the call: ingest.extract_awards extends and appends to `awards`, which
\* is that object when AwardsIsCallersList
CallersAwards ==
    IF x_module = "ingest" /\ AwardsIsCallersList(x_json_awards) /\ x_pc # "start"
    THEN x_awards
    ELSE OrEmpty(x_json_awards)

ExtractNext ==
    ExtractBegin \/ ExtractTags \/ ExtractPattern \/ ExtractExplicit \/ ExtractReturn

ExtractSpec == ExtractInit /\ [][ExtractNext]_vars

\* a name as the normalizer leaves one: trimmed, lower case, whitespace
\* collapsed, and not one the rejection test refuses
IsNormalizedName(name) ==
    /\ name # None
    /\ name = CollapseWs(Lower(Strip(name)))
    /\ ~Rejected(name)

\* C10: every name extract_awards returns, from a capture or from a tag of
\* the JSON list, is a normalized string that contains or is contained in an
\* entry of the canonical vocabulary.
C10_OutputWithinVocabulary ==
    x_pc = "done" =>
        \A n \in 1..Len(x_result) : IsNormalizedName(x_result[n]) /\ InVocabulary(x_result[n])

\* C12: extract_awards never raises, whatever the description (None, empty
\* or text) and the tag list (None, empty or not), and returns no name when
\* both are None or empty.
C12_NeverRaises ==
    /\ x_pc # "raised"
    /\ (x_pc = "done" /\ ~Truthy(x_desc) /\ OrEmpty(x_json_awards) = <<>>) => x_result = <<>>

\* ------------------------------------------------------------------------
\* ingest (src/ingest.py lines 62-137) and the start of the assistant
\* (src/assistant.py lines 52-56)
\* ------------------------------------------------------------------------

\* pub.get(key, default): the default only when the key is absent; a key
\* that holds JSON null gives None
Get(pub, key, default) == IF key \in DOMAIN pub THEN pub[key] ELSE default

\* str(x) inside an f-string
Str(x) == IF x = None THEN "None" ELSE x

\* what ingest.extract_awards(desc, json_awards) can return: the tag list as
\* it is when desc is None or empty (lines 29-31), otherwise the tags, the
\* normalized captures of the four patterns and the two explicit awards, each
\* once, in any order (lines 33-60)
IngestCollected(desc, list) ==
    OrEmpty(list)
        \o NormalizeAll("ingest", FindAll("ingest", 1, desc))
        \o NormalizeAll("ingest", FindAll("ingest", 2, desc))
        \o NormalizeAll("ingest", FindAll("ingest", 3, desc))
        \o NormalizeAll("ingest", FindAll("ingest", 4, desc))
        \o (IF Contains(Lower(desc), "best overall project")
            THEN <<"best overall project">> ELSE <<>>)
        \o (IF Contains(Lower(desc), "most innovative project")
            THEN <<"most innovative project">> ELSE <<>>)

IngestExtractAwards(desc, list) ==
    IF ~Truthy(desc) THEN {OrEmpty(list)}
    ELSE Orderings(SelectSeq(IngestCollected(desc, list), Truthy))

\* lines 100-107
Metadata(pub, awards_str) ==
    [id |-> Get(pub, "id", None),
     username |-> Get(pub, "username", None),
     license |-> Get(pub, "license", None),
     awards |-> awards_str,
     title |-> Get(pub, "title", None),
     source |-> "readytensor_publication"]

\* lines 110-115: the f-string, each of its lines indented by eight blanks
FullText(pub, desc, awards_str) ==
    "\n        Title: " \o Str(Get(pub, "title", None))
        \o "\n        Author: " \o Str(Get(pub, "username", None))
        \o "\n        Description: " \o Str(desc)
        \o "\n        Awards: " \o awards_str \o "\n        "

\* splitter.split_text(text) of line 118.  RecursiveCharacterTextSplitter is
\* a library class; ingest only enumerates and strips what it returns.  Here
\* the text comes back in n consecutive pieces of equal length (the last one
\* shorter), n being chosen by the caller of this operator.
SplitText(text, n) ==
    LET size == (Len(text) + n - 1) \div n
    IN [j \in 1..n |->
           SubSeq(text, (j - 1) * size + 1, IF j * size < Len(text) THEN j * size ELSE Len(text))]

\* mutation of ChunkDocuments: a record without an id is skipped
ChunkDocumentsWithId(chunks, metadata) ==
    IF metadata.id = None THEN <<>>
    ELSE [j \in 1..Len(chunks) |->
            [page_content |-> Strip(chunks[j]),
             metadata |-> [id |-> metadata.id, username |-> metadata.username,
                           license |-> metadata.license, awards |-> metadata.awards,
                           title |-> metadata.title, source |-> metadata.source,
                           chunk |-> j - 1]]]

\* lines 119-123: Document(page_content=chunk.strip(), metadata={**metadata,
\* "chunk": i}) for i, chunk in enumerate(chunks)
ChunkDocuments(chunks, metadata) ==
    [j \in 1..Len(chunks) |->
        [page_content |-> Strip(chunks[j]),
         metadata |-> [id |-> metadata.id, username |-> metadata.username,
                       license |-> metadata.license, awards |-> metadata.awards,
                       title |-> metadata.title, source |-> metadata.source,
                       chunk |-> j - 1]]]

\* mutation of BatchAt: documents[i:i+batch_size-1]
BatchAtOneShort(all_docs, at, size) ==
    SubSeq(all_docs, at + 1, IF at + size - 1 < Len(all_docs) THEN at + size - 1 ELSE Len(all_docs))

\* documents[i:i+batch_size]
BatchAt(all_docs, at, size) ==
    SubSeq(all_docs, at + 1, IF at + size < Len(all_docs) THEN at + size ELSE Len(all_docs))

\* mutation of Rmtree: the directory is left as it is
RmtreeSkipped(db) == db

\* shutil.rmtree(CHROMA_DIR)
Rmtree(db) == [exists |-> FALSE, chunks |-> <<>>]

\* vectorstore.add_documents(batch)
AddDocuments(db, batch) == [exists |-> TRUE, chunks |-> db.chunks \o batch]

MaxRecords == 2
MaxChunks == 2
MaxRuns == 2

\* batch_size of the call at line 135
INGEST_BATCH_SIZE == 5000

\* records of the corpus: every field present; only the id; fields that are
\* null, "none" or "n/a" with a repeated tag; no id and a null tag list
Records ==
    {[id |-> "p1", title |-> "Alpha", username |-> "ann", license |-> "mit",
      publication_description |-> "Award: Best Overall Project. ",
      awards |-> PyList(<<"Best Overall Project">>)],
     [id |-> "p2"],
     [id |-> "p3", title |-> None, username |-> "none", license |-> "n/a",
      publication_description |-> None, awards |-> PyList(<<"Top Tool", "Top Tool">>)],
     [title |-> "Echo", username |-> "eve", publication_description |-> "We won a prize, ",
      awards |-> NoList]}

\* what DATA_FILE can be when a run starts
DataFiles ==
    {[state |-> "missing", records |-> <<>>], [state |-> "unparsable", records |-> <<>>],
     [state |-> "ok", records |-> <<>>]}
        \cup {[state |-> "ok", records |-> rs] : rs \in DistinctSeqsUpTo(Records, MaxRecords)}

\* mutation of Parses: json.load returns a list whatever the file holds
ParsesAlways(file) == TRUE

\* json.load(f) returns instead of raising
Parses(file) == file.state = "ok"

\* lines 77-79: the old index directory is removed
ResetDb ==
    /\ g_pc = "start"
    /\ chroma_db' = IF chroma_db.exists THEN Rmtree(chroma_db) ELSE chroma_db
    /\ g_pc' = "check"
    /\ UNCHANGED <<data_file, publications, pub_k, documents, batch_size, batch_i,
                   submissions, g_error, run_no, had_index,
                   assistant_store>>
    /\ UNCHANGED <<askVars, parked, backendVars, normVars, extractVars, scrapeVars>>

\* lines 81-82
CheckDataFile ==
    /\ g_pc = "check"
    /\ IF data_file.state = "missing"
       THEN g_pc' = "failed" /\ g_error' = "FileNotFoundError"
       ELSE g_pc' = "load" /\ g_error' = g_error
    /\ UNCHANGED <<data_file, chroma_db, publications, pub_k, documents, batch_size,
                   batch_i, submissions, run_no, had_index,
                   assistant_store>>
    /\ UNCHANGED <<askVars, parked, backendVars, normVars, extractVars, scrapeVars>>

\* line 84, load_json lines 62-64: json.load raises on a file it cannot parse
LoadJson ==
    /\ g_pc = "load"
    /\ IF ~Parses(data_file)
       THEN g_pc' = "failed" /\ g_error' = "JSONDecodeError" /\ publications' = publications
       ELSE g_pc' = "chunk" /\ g_error' = g_error /\ publications' = data_file.records
    /\ UNCHANGED <<data_file, chroma_db, pub_k, documents, batch_size, batch_i,
                   submissions, run_no, had_index,
                   assistant_store>>
    /\ UNCHANGED <<askVars, parked, backendVars, normVars, extractVars, scrapeVars>>

\* lines 95-123, one pass of the for loop over publications
ChunkPublication ==
    /\ g_pc = "chunk"
    /\ pub_k <= Len(publications)
    /\ LET pub == publications[pub_k]
           desc == Get(pub, "publication_description", "")
       IN \E awards \in IngestExtractAwards(desc, Get(pub, "awards", PyList(<<>>))) :
          \E n \in 1..MaxChunks :
             LET awards_str == IF awards # <<>> THEN Join(awards, " | ") ELSE "none"
                 chunks == SplitText(FullText(pub, desc, awards_str), n)
             IN documents' = documents \o ChunkDocuments(chunks, Metadata(pub, awards_str))
    /\ pub_k' = pub_k + 1
    /\ UNCHANGED <<data_file, chroma_db, publications, batch_size, batch_i, submissions,
                   g_pc, g_error, run_no, had_index,
                   assistant_store>>
    /\ UNCHANGED <<askVars, parked, backendVars, normVars, extractVars, scrapeVars>>

\* lines 129-132: the for loop is over and the Chroma store is constructed
BuildChroma ==
    /\ g_pc = "chunk"
    /\ pub_k > Len(publications)
    /\ chroma_db' = [exists |-> TRUE, chunks |-> chroma_db.chunks]
    /\ batch_i' = 0
    /\ g_pc' = "add"
    /\ UNCHANGED <<data_file, publications, pub_k, documents, batch_size, submissions,
                   g_error, run_no, had_index,
                   assistant_store>>
    /\ UNCHANGED <<askVars, parked, backendVars, normVars, extractVars, scrapeVars>>

\* batch_add_documents lines 69-72, one pass of its loop
AddBatch ==
    /\ g_pc = "add"
    /\ batch_i < Len(documents)
    /\ LET batch == BatchAt(documents, batch_i, batch_size)
       IN /\ chroma_db' = AddDocuments(chroma_db, batch)
          /\ submissions' = Append(submissions, batch)
    /\ batch_i' = batch_i + batch_size
    /\ UNCHANGED <<data_file, publications, pub_k, documents, batch_size, g_pc, g_error,
                   run_no, had_index,
                   assistant_store>>
    /\ UNCHANGED <<askVars, parked, backendVars, normVars, extractVars, scrapeVars>>

\* the same pass when vectorstore.add_documents raises: nothing catches the
\* exception, and any number of the batch's documents may have been written
AddBatchFails ==
    /\ g_pc = "add"
    /\ batch_i < Len(documents)
    /\ LET batch == BatchAt(documents, batch_i, batch_size)
       IN /\ \E written \in 0..(Len(batch) - 1) :
                chroma_db' = AddDocuments(chroma_db, SubSeq(batch, 1, written))
          /\ submissions' = Append(submissions, batch)
    /\ g_pc' = "failed"
    /\ g_error' = "IndexWriteError"
    /\ UNCHANGED <<data_file, publications, pub_k, documents, batch_size, batch_i,
                   run_no, had_index,
                   assistant_store>>
    /\ UNCHANGED <<askVars, parked, backendVars, normVars, extractVars, scrapeVars>>

\* the loop of batch_add_documents is over; line 137
FinishIngest ==
    /\ g_pc = "add"
    /\ batch_i >= Len(documents)
    /\ g_pc' = "done"
    /\ UNCHANGED <<data_file, chroma_db, publications, pub_k, documents, batch_size,
                   batch_i, submissions, g_error, run_no, had_index,
                   assistant_store>>
    /\ UNCHANGED <<askVars, parked, backendVars, normVars, extractVars, scrapeVars>>

\* lines 140-141: ingest.py is run again, on whatever DATA_FILE is then
RunAgain ==
    /\ g_pc \in {"done", "failed"}
    /\ run_no < MaxRuns
    /\ run_no' = run_no + 1
    /\ had_index' = (chroma_db.exists /\ chroma_db.chunks # <<>>)
    /\ data_file' \in DataFiles
    /\ publications' = <<>> /\ pub_k' = 1 /\ documents' = <<>> /\ batch_i' = 0
    /\ submissions' = <<>> /\ g_pc' = "start" /\ g_error' = None
    /\ assistant_store' = [loaded |-> FALSE, chunks |-> <<>>]
    /\ UNCHANGED <<chroma_db, batch_size>>
    /\ UNCHANGED <<askVars, parked, backendVars, normVars, extractVars, scrapeVars>>

\* src/assistant.py lines 52-56: the assistant starts between two runs of
\* ingest and opens whatever CHROMA_DIR holds, if the directory exists
AssistantStart ==
    /\ g_pc \in {"done", "failed"}
    /\ ~assistant_store.loaded
    /\ chroma_db.exists
    /\ assistant_store' = [loaded |-> TRUE, chunks |-> chroma_db.chunks]
    /\ UNCHANGED <<data_file, chroma_db, publications, pub_k, documents, batch_size,
                   batch_i, submissions, g_pc, g_error, run_no,
                   had_index>>
    /\ UNCHANGED <<askVars, parked, backendVars, normVars, extractVars, scrapeVars>>

IngestInit ==
    /\ data_file \in DataFiles
    /\ chroma_db = [exists |-> FALSE, chunks |-> <<>>]
    /\ publications = <<>> /\ pub_k = 1 /\ documents = <<>>
    /\ batch_size \in {1, 2, INGEST_BATCH_SIZE}
    /\ batch_i = 0 /\ submissions = <<>> /\ g_pc = "start" /\ g_error = None /\ run_no = 1
    /\ had_index = FALSE
    /\ assistant_store = [loaded |-> FALSE, chunks |-> <<>>]
    /\ AskIdle /\ BackendIdle /\ NormIdle /\ ExtractIdle /\ ScrapeIdle

IngestNext ==
    \/ ResetDb \/ CheckDataFile \/ LoadJson \/ ChunkPublication \/ BuildChroma
    \/ AddBatch \/ AddBatchFails \/ FinishIngest \/ RunAgain \/ AssistantStart

IngestSpec == IngestInit /\ [][IngestNext]_vars

\* the names of an awards string are normalized and no name occurs twice
IsAwardsField(str) ==
    \/ str = "none"
    \/ LET names == SplitOn(str, " | ")
       IN /\ \A n \in 1..Len(names) : IsNormalizedName(names[n])
          /\ \A a, b \in 1..Len(names) : names[a] = names[b] => a = b

\* C11: the awards string of every chunk ingest builds is the literal "none"
\* or a pipe-joined list of normalized award names without a repeated name,
\* whatever the record's description and raw awards list.
C11_AwardsMetadata ==
    \A n \in 1..Len(documents) : IsAwardsField(documents[n].metadata.awards)

\* C13: in every run the old index is removed before anything is added, so
\* while a run adds, the index holds only what this run added, and after a
\* completed run, whatever the runs before it, it holds exactly the chunks
\* of this run's corpus, each once.
C13_WipeThenBulkAdd ==
    /\ g_pc \in {"check", "load", "chunk"} => ~chroma_db.exists
    /\ g_pc \in {"add", "done"} => chroma_db.chunks = Take(documents, batch_i)
    /\ g_pc = "done" =>
          /\ chroma_db.exists
          /\ publications = data_file.records
          /\ chroma_db.chunks = documents

\* a second run has completed with several chunks
C13_Witness == run_no = 2 /\ g_pc = "done" /\ Len(chroma_db.chunks) >= 2

\* C14: when the corpus file is missing or cannot be parsed, the run ends
\* with an error before any record is chunked: no document is submitted and
\* no index directory is produced.
C14_MissingCorpusIsFatal ==
    /\ data_file.state = "missing" => g_pc \in {"start", "check", "failed"}
    /\ data_file.state = "unparsable" => g_pc \in {"start", "check", "load", "failed"}
    /\ (data_file.state # "ok" /\ g_pc = "failed") =>
          /\ g_error \in {"FileNotFoundError", "JSONDecodeError"}
          /\ documents = <<>>
          /\ submissions = <<>>
          /\ ~chroma_db.exists

\* a second run has failed on a missing corpus file
C14_Witness ==
    g_pc = "failed" /\ run_no = 2 /\ data_file.state = "missing" /\ g_error = "FileNotFoundError"

\* the documents of the batches submitted in this run
RECURSIVE Flatten(_)
Flatten(batches) == IF batches = <<>> THEN <<>> ELSE Head(batches) \o Flatten(Tail(batches))

\* C15: when the index fails while a batch is added, ingest stops without
\* submitting a later batch, and the partially written index is never used
\* as a valid index: nothing opens it before a later ingest has rebuilt it.
C15_WriteFailureDiscardsIndex ==
    /\ g_error = "IndexWriteError" =>
          /\ g_pc = "failed"
          /\ Flatten(submissions) = Take(documents, batch_i + batch_size)
    /\ assistant_store.loaded => g_error # "IndexWriteError"

\* C16: a completed batch_add_documents has submitted every document once
\* and in list order, in ceil(n/b) submissions of 1 to b documents, all but
\* the last of exactly b; an empty list gives no submission.
C16_BoundedBatches ==
    g_pc = "done" =>
        /\ Flatten(submissions) = documents
        /\ \A k \in 1..Len(submissions) :
              /\ Len(submissions[k]) >= 1
              /\ Len(submissions[k]) <= batch_size
              /\ k < Len(submissions) => Len(submissions[k]) = batch_size
        /\ Len(submissions) = (Len(documents) + batch_size - 1) \div batch_size
        /\ documents = <<>> => submissions = <<>>

\* three documents went out in batches of two: a full batch and a short one
C16_Witness ==
    g_pc = "done" /\ batch_size = 2 /\ Len(documents) = 3 /\ Len(submissions) = 2

\* the ids of the records loaded, None for a record without one
RecordIds == {Get(publications[k], "id", None) : k \in 1..Len(publications)}

\* the documents handed to the index in this run
Submitted == Flatten(submissions)

\* C17: in a completed run every record, whichever of its fields are missing
\* or null, has at least one chunk with its id among the submitted
\* documents, and the submitted chunks carry as many distinct ids as the
\* records do.
C17_NoRecordDropped ==
    g_pc = "done" =>
        /\ \A k \in 1..Len(publications) :
              \E n \in 1..Len(Submitted) :
                 Submitted[n].metadata.id = Get(publications[k], "id", None)
        /\ Cardinality({Submitted[n].metadata.id : n \in 1..Len(Submitted)})
              = Cardinality(RecordIds)

\* a completed run over a record that has only an id and one that has none
C17_Witness ==
    /\ g_pc = "done"
    /\ Len(publications) = 2
    /\ DOMAIN publications[1] = {"id"}
    /\ "id" \notin DOMAIN publications[2]

\* a value the spec treats as absent, and the value it asks for instead
IsAbsentValue(v) == v \in {None, "none", "n/a"}
WithDefault(v, default) == IF IsAbsentValue(v) THEN default ELSE v

\* the chunks built for the record with this id
ChunksOf(id) == SelectSeq(documents, LAMBDA d : d.metadata.id = id)

\* C18: the chunks of a record whose title, username or license is absent,
\* null, "none" or "n/a" carry "Untitled Project", "anonymous" and "unknown"
\* in their metadata, and the composed text names the defaulted title and
\* author.
C18_FieldDefaults ==
    \A k \in 1..Len(publications) :
        LET pub == publications[k]
            mine == ChunksOf(Get(pub, "id", None))
            title == WithDefault(Get(pub, "title", None), "Untitled Project")
            author == WithDefault(Get(pub, "username", None), "anonymous")
        IN /\ \A n \in 1..Len(mine) :
                 /\ mine[n].metadata.title = title
                 /\ mine[n].metadata.username = author
                 /\ mine[n].metadata.license
                        = WithDefault(Get(pub, "license", None), "unknown")
           /\ Len(mine) = 1 =>
                 /\ Contains(mine[1].page_content, "Title: " \o title \o "\n")
                 /\ Contains(mine[1].page_content, "Author: " \o author \o "\n")

\* C19: the chunks of a publication split into n chunks carry the indices
\* 0 .. n-1 in split order and the id of that publication, and each carries
\* the total chunk count n.
C19_ChunkIndexing ==
    \A k \in 1..Len(publications) :
        LET mine == ChunksOf(Get(publications[k], "id", None))
        IN \A n \in 1..Len(mine) :
              /\ mine[n].metadata.chunk = n - 1
              /\ "total_chunks" \in DOMAIN mine[n].metadata
              /\ mine[n].metadata["total_chunks"] = Len(mine)

\* ------------------------------------------------------------------------
\* A session: a run of ingest that completes builds the index, an entry
\* point (the form of src/app.py lines 197-224 or the loop of
\* src/assistant.py lines 159-182) opens it, parses one user input and calls
\* ask_assistant
\* ------------------------------------------------------------------------

\* the length of the run of characters outside `quotes` that starts at q
RECURSIVE RunLen(_, _, _)
RunLen(s, q, quotes) ==
    IF q > Len(s) \/ Chr(s, q) \in quotes THEN 0 ELSE 1 + RunLen(s, q + 1, quotes)

\* re.search of `tag\s*['"]([^'"]+)['"]` (app.py line 208) or of
\* `tag\s+'([^']+)'` (assistant.py line 170), both with re.IGNORECASE, tried
\* from position p on: group 1 of the leftmost match, None without a match
RECURSIVE TagSearch(_, _, _, _)
TagSearch(s, p, quotes, needSpace) ==
    IF p + 2 > Len(s) THEN None
    ELSE LET q == SkipSpaces(s, p + 3)
             n == RunLen(s, q + 1, quotes)
             hit == /\ Lower(SubSeq(s, p, p + 2)) = "tag"
                    /\ needSpace => q > p + 3
                    /\ q <= Len(s) /\ Chr(s, q) \in quotes
                    /\ n >= 1
                    /\ q + n + 1 <= Len(s)
         IN IF hit THEN SubSeq(s, q + 1, q + n)
            ELSE TagSearch(s, p + 1, quotes, needSpace)

\* app.py lines 205-217
WebAward(user_input) ==
    LET lower == Lower(user_input)
        m == TagSearch(user_input, 1, {"'", "\""}, FALSE)
    IN IF m # None THEN m
       ELSE IF Contains(lower, "most innovative") THEN "most innovative project"
       ELSE IF Contains(lower, "best overall") THEN "best overall project"
       ELSE None

\* assistant.py lines 167-177
CliAward(text) ==
    LET query_lower == Lower(text)
        match == TagSearch(text, 1, {"'"}, TRUE)
    IN IF Contains(query_lower, "tag")
       THEN (IF match # None THEN Lower(match) ELSE None)
       ELSE IF Contains(query_lower, "most innovative project")
                 \/ Contains(query_lower, "most innovative projects")
            THEN "most innovative project"
       ELSE IF Contains(query_lower, "best overall project")
                 \/ Contains(query_lower, "best overall projects")
            THEN "best overall project"
       ELSE None

\* what a user types
UserInputs ==
    {"tag \"best overall project\"",
     "tag \"Best Overal Project\"",
     "tag 'Best Overal Project'",
     "tag 'Best Overall Project' list 5",
     "TAG \"Most Innovative Project\"",
     "Tag'Top Tool'",
     "tag \"People's Choice\"",
     "tag \"Nonexistent Prize\"",
     "tag 'Nonexistent Prize'",
     "tag best overall",
     "the most innovative ones",
     "best overall projects please",
     "what is a vector store",
     "quit",
     ""}

\* a corpus of three publications, one of them tagged "Best Overall Project"
Corpus ==
    <<[id |-> "p1", title |-> "Alpha", username |-> "ann", license |-> "mit",
       publication_description |-> "Award: Best Overall Project. ",
       awards |-> PyList(<<"Best Overall Project">>)],
      [id |-> "p2", title |-> "Beta", username |-> "bob", license |-> "mit",
       publication_description |-> "A parser", awards |-> PyList(<<>>)],
      [id |-> "p3", title |-> "Gamma", username |-> "cy", license |-> "mit",
       publication_description |-> "", awards |-> PyList(<<"Top Tool">>)]>>

\* what the retriever returns for a text with k = 500: the stored chunks, as
\* the records ask_assistant reads, in the order the index ranks them (the
\* ranking is the library's: the stored order and its reverse are explored)
Rankings(chunks) ==
    LET hit(d) == [id |-> d.metadata.id, awards |-> d.metadata.awards,
                   title |-> d.metadata.title, page_content |-> d.page_content]
        n == Len(chunks)
    IN {[k \in 1..n |-> hit(chunks[k])], [k \in 1..n |-> hit(chunks[n + 1 - k])]}

\* app.py lines 203-224: a non-empty input is submitted
ChatFormSubmit ==
    /\ pc = "web"
    /\ assistant_store.loaded
    /\ \E user_input \in UserInputs \ {""} :
          /\ query' = user_input
          /\ award' = WebAward(user_input)
    /\ index_hits' \in Rankings(assistant_store.chunks)
    /\ pc' = "start"
    /\ UNCHANGED <<FUZZY_AVAILABLE, award_normalized, searches, docs, i, filtered_docs,
                   fuzzy_consulted, seen_ids, unique_docs, context, response>>
    /\ UNCHANGED notAskVars

\* assistant.py lines 162-181: one pass of the loop
CliAsk ==
    /\ pc = "cli"
    /\ assistant_store.loaded
    /\ \E text \in UserInputs :
          /\ query' = text
          /\ IF Lower(text) = "quit"
             THEN award' = None /\ pc' = "quit"
             ELSE award' = CliAward(text) /\ pc' = "start"
    /\ index_hits' \in Rankings(assistant_store.chunks)
    /\ UNCHANGED <<FUZZY_AVAILABLE, award_normalized, searches, docs, i, filtered_docs,
                   fuzzy_consulted, seen_ids, unique_docs, context, response>>
    /\ UNCHANGED notAskVars

SessionInit ==
    /\ data_file \in {[state |-> "ok", records |-> Corpus], [state |-> "ok", records |-> <<>>]}
    /\ chroma_db = [exists |-> FALSE, chunks |-> <<>>]
    /\ publications = <<>> /\ pub_k = 1 /\ documents = <<>>
    /\ batch_size = INGEST_BATCH_SIZE
    /\ batch_i = 0 /\ submissions = <<>> /\ g_pc = "start" /\ g_error = None /\ run_no = 1
    /\ had_index = FALSE
    /\ assistant_store = [loaded |-> FALSE, chunks |-> <<>>]
    /\ query = "" /\ award = None /\ FUZZY_AVAILABLE \in BOOLEAN /\ index_hits = <<>>
    /\ pc \in {"web", "cli"} /\ award_normalized = None /\ searches = <<>> /\ docs = <<>>
    /\ i = 1 /\ filtered_docs = <<>> /\ fuzzy_consulted = {} /\ seen_ids = {}
    /\ unique_docs = <<>> /\ context = "" /\ response = None
    /\ parked = [pc |-> "idle"]
    /\ BackendIdle /\ NormIdle /\ ExtractIdle /\ ScrapeIdle

SessionNext ==
    \/ ResetDb \/ CheckDataFile \/ LoadJson \/ ChunkPublication \/ BuildChroma
    \/ AddBatch \/ FinishIngest \/ AssistantStart
    \/ ChatFormSubmit \/ CliAsk
    \/ Retrieve \/ FilterStep \/ FilterExit \/ DedupStep \/ DedupExit \/ Answer

SessionSpec == SessionInit /\ [][SessionNext]_vars

\* ------------------------------------------------------------------------
\* Properties of a session
\* ------------------------------------------------------------------------

\* an entry point has parsed the input and called ask_assistant
Called == pc \notin {"web", "cli", "quit"}

\* the names that follow the keyword tag (any letter case, blanks allowed
\* after it) between two double quotes or between two single quotes
TaggedNames(s) ==
    {SubSeq(s, q + 1, e - 1) :
        <<q, e>> \in {<<q, e>> \in (1..Len(s)) \X (1..Len(s)) :
                        /\ e > q + 1
                        /\ Chr(s, q) \in {"'", "\""}
                        /\ Chr(s, e) = Chr(s, q)
                        /\ \A m \in (q + 1)..(e - 1) : Chr(s, m) # Chr(s, q)
                        /\ \E p \in 1..(q - 3) :
                              /\ Lower(SubSeq(s, p, p + 2)) = "tag"
                              /\ \A m \in (p + 3)..(q - 1) : IsSpace(Chr(s, m))}}

\* C21: after either entry point parsed an input, the award is the quoted
\* name that follows the keyword tag if there is one, else the canonical
\* award of the shortcut phrase the input contains, else none.
C21_AwardParsing ==
    Called =>
        IF TaggedNames(query) # {} THEN award \in TaggedNames(query)
        ELSE IF Contains(Lower(query), "most innovative") THEN award = "most innovative project"
        ELSE IF Contains(Lower(query), "best overall") THEN award = "best overall project"
        ELSE award = None

\* the retriever returned nothing, or the filter loop ended with nothing kept
ZeroCandidates ==
    /\ pc \in {"dedup", "format", "done", "error"}
    /\ index_hits = <<>> \/ (Truthy(award_normalized) /\ filtered_docs = <<>>)

\* C22: with zero candidates the call does not take its error path: nothing
\* is selected, the context is empty and the answer of the chain is returned.
C22_ZeroCandidatesIsNoError ==
    ZeroCandidates =>
        /\ pc # "error"
        /\ unique_docs = <<>>
        /\ pc \in {"format", "done"} => docs = <<>>
        /\ pc = "done" => context = "" /\ response = "answer"

\* a call on the three-publication index whose filter rejected every chunk
C22_Witness ==
    /\ pc = "done" /\ index_hits # <<>> /\ Truthy(award_normalized)
    /\ filtered_docs = <<>> /\ context = ""

\* the corpus of three publications was ingested and the call made its
\* selection
SelectedFromCorpus == data_file.records = Corpus /\ pc \in {"format", "done"}

\* C23: on the index of the three-publication corpus the query
\* tag "best overall project" selects exactly one entry, a chunk of the
\* publication tagged "Best Overall Project".
C23_EndToEndExact ==
    SelectedFromCorpus /\ query = "tag \"best overall project\""
        => Len(docs) = 1 /\ docs[1].id = "p1"

\* ask_assistant was called with the misspelled award
MisspelledAward == award # None /\ Lower(Strip(award)) = "best overal project"

Frame ==
    [query |-> query, award |-> award, index_hits |-> index_hits, pc |-> pc,
     award_normalized |-> award_normalized, searches |-> searches, docs |-> docs,
     i |-> i, filtered_docs |-> filtered_docs, fuzzy_consulted |-> fuzzy_consulted,
     seen_ids |-> seen_ids, unique_docs |-> unique_docs, context |-> context,
     response |-> response]

\* mutation of Switch: seen_ids is one set that both calls use
SwitchSharedSeen ==
    /\ parked.pc # "idle"
    /\ parked' = Frame
    /\ query' = parked.query /\ award' = parked.award /\ index_hits' = parked.index_hits
    /\ pc' = parked.pc /\ award_normalized' = parked.award_normalized
    /\ searches' = parked.searches /\ docs' = parked.docs /\ i' = parked.i
    /\ filtered_docs' = parked.filtered_docs /\ fuzzy_consulted' = parked.fuzzy_consulted
    /\ unique_docs' = parked.unique_docs
    /\ context' = parked.context /\ response' = parked.response
    /\ UNCHANGED <<seen_ids, FUZZY_AVAILABLE, backendVars, normVars, extractVars, ingestVars, scrapeVars>>

\* the running call is suspended between two of its steps and the other call
\* goes on: every name the function assigns is a local of the call
Switch ==
    /\ parked.pc # "idle"
    /\ parked' = Frame
    /\ query' = parked.query /\ award' = parked.award /\ index_hits' = parked.index_hits
    /\ pc' = parked.pc /\ award_normalized' = parked.award_normalized
    /\ searches' = parked.searches /\ docs' = parked.docs /\ i' = parked.i
    /\ filtered_docs' = parked.filtered_docs /\ fuzzy_consulted' = parked.fuzzy_consulted
    /\ seen_ids' = parked.seen_ids /\ unique_docs' = parked.unique_docs
    /\ context' = parked.context /\ response' = parked.response
    /\ UNCHANGED <<FUZZY_AVAILABLE, backendVars, normVars, extractVars, ingestVars, scrapeVars>>

\* lines 89-97 / 125-126 when retriever.invoke raises: the except clause of
\* line 156 returns the error string
RetrieveFails ==
    /\ UNCHANGED notAskVars
    /\ pc = "start"
    /\ award_normalized' = NormalizeArg(award)
    /\ searches' = Append(searches,
                          [text |-> SearchText(query, award), k |-> top_k, filter |-> None])
    /\ response' = "Error while generating response: index"
    /\ pc' = "error"
    /\ UNCHANGED <<query, award, FUZZY_AVAILABLE, index_hits, docs, i, filtered_docs,
                   fuzzy_consulted, seen_ids, unique_docs, context>>

\* mutation of AnswerFails: the exception of the chain leaves the function
AnswerFailsUncaught ==
    /\ UNCHANGED notAskVars
    /\ pc = "format"
    /\ \A n \in 1..Len(docs) : docs[n].awards # Missing
    /\ context' = Join([n \in 1..Len(docs) |-> Section(docs[n])], "\n")
    /\ pc' = "raised"
    /\ UNCHANGED <<query, award, FUZZY_AVAILABLE, index_hits, award_normalized,
                   searches, docs, i, filtered_docs, fuzzy_consulted, seen_ids,
                   unique_docs, response>>

\* lines 137-154 when rag_chain.invoke raises after the context was formatted
AnswerFails ==
    /\ UNCHANGED notAskVars
    /\ pc = "format"
    /\ \A n \in 1..Len(docs) : docs[n].awards # Missing
    /\ context' = Join([n \in 1..Len(docs) |-> Section(docs[n])], "\n")
    /\ response' = "Error while generating response: chain"
    /\ pc' = "error"
    /\ UNCHANGED <<query, award, FUZZY_AVAILABLE, index_hits, award_normalized,
                   searches, docs, i, filtered_docs, fuzzy_consulted, seen_ids,
                   unique_docs>>

\* two calls on one index: the second one is given the same chunks in the
\* reverse ranking, with no award or with the award "top prize"; the calls on
\* the pool are taken with fuzzywuzzy installed
ConcurrentInit ==
    /\ \E c \in {p \in PoolCalls : p.fuzzy}
                 \cup {s \in SingleCalls : s.hits[1].awards \in {Missing, "aba"}} :
       \E a \in {None, "top prize"} :
          /\ query = c.query
          /\ award = c.award
          /\ FUZZY_AVAILABLE = c.fuzzy
          /\ index_hits = c.hits
          /\ parked = [query |-> "list projects", award |-> a,
                       index_hits |-> [n \in 1..Len(c.hits) |-> c.hits[Len(c.hits) + 1 - n]],
                       pc |-> "start", award_normalized |-> None, searches |-> <<>>,
                       docs |-> <<>>, i |-> 1, filtered_docs |-> <<>>,
                       fuzzy_consulted |-> {}, seen_ids |-> {}, unique_docs |-> <<>>,
                       context |-> "", response |-> None]
    /\ pc = "start" /\ award_normalized = None /\ searches = <<>> /\ docs = <<>>
    /\ i = 1 /\ filtered_docs = <<>> /\ fuzzy_consulted = {} /\ seen_ids = {}
    /\ unique_docs = <<>> /\ context = "" /\ response = None
    /\ BackendIdle /\ NormIdle /\ ExtractIdle /\ IngestIdle /\ ScrapeIdle

ConcurrentNext ==
    \/ Retrieve \/ RetrieveFails \/ FilterStep \/ FilterExit \/ DedupStep \/ DedupExit
    \/ Answer \/ AnswerFails \/ Switch

ConcurrentSpec == ConcurrentInit /\ [][ConcurrentNext]_vars

\* ------------------------------------------------------------------------
\* Properties of concurrent and of failing calls
\* ------------------------------------------------------------------------

\* what the running call selects when nothing else runs: the retrieved
\* candidates that pass a tier (all of them without an award), reduced to the
\* first chunk of each of the first five ids
AloneCandidates ==
    LET t == Target
        Passes(d) == PassesATier(t, d)
    IN IF FilterActive THEN SelectSeq(Retrieved, Passes) ELSE Retrieved

AloneSelection ==
    LET firsts == FirstPositions(AloneCandidates)
        u == Cardinality(firsts)
        n == IF u < 5 THEN u ELSE 5
    IN [p \in 1..n |-> AloneCandidates[Nth(firsts, p)]]

\* C25: whatever the interleaving of its steps with those of another call,
\* a call selects the documents it selects alone, and no step of either call
\* changes the index directory, the opened index, the fuzzy flag or what the
\* index returns to a call.
C25_ReadOnlyIndependent ==
    /\ [](pc \in {"format", "done"} => docs = AloneSelection)
    /\ [][/\ chroma_db' = chroma_db
          /\ assistant_store' = assistant_store
          /\ FUZZY_AVAILABLE' = FUZZY_AVAILABLE
          /\ {index_hits', parked'.index_hits} = {index_hits, parked.index_hits}]_vars

\* a call finished with a selection while the other call was inside its
\* deduplication loop, having seen other ids
C25_Witness ==
    /\ pc = "done" /\ docs # <<>>
    /\ parked.pc = "dedup" /\ parked.i > 1
    /\ parked.seen_ids # {} /\ parked.seen_ids # seen_ids

\* ------------------------------------------------------------------------
\* More properties of ingest (IngestSpec) and of extract_awards (ExtractSpec)
\* ------------------------------------------------------------------------

\* C26: the index directory is already removed when ingest looks for the
\* corpus file, so a run that ends with FileNotFoundError leaves no index
\* directory, whatever index the run found.
C26_FailedRunRemovesIndex ==
    /\ g_pc = "check" => ~chroma_db.exists /\ g_error = None
    /\ g_error = "FileNotFoundError" =>
          /\ g_pc = "failed"
          /\ data_file.state = "missing"
          /\ chroma_db = [exists |-> FALSE, chunks |-> <<>>]

\* a run that found an index with chunks in it ended with FileNotFoundError
C26_Witness ==
    /\ g_error = "FileNotFoundError"
    /\ had_index
    /\ ~chroma_db.exists

\* ingest.extract_awards was given a list that is not empty
GivenAwards == x_module = "ingest" /\ ~x_json_awards.is_none /\ x_json_awards.items # <<>>

\* C27: when ingest.extract_awards returns from a call with a non-empty list
\* and a non-empty description, the caller's list holds what it held followed
\* by every captured and every explicitly added name; with an empty
\* description the list is returned as it is, repeated names included.
C27_ArgumentIsExtended ==
    GivenAwards /\ x_pc = "done" =>
        IF Truthy(x_desc)
        THEN CallersAwards = IngestCollected(x_desc, x_json_awards)
        ELSE x_result = x_json_awards.items /\ CallersAwards = x_json_awards.items

\* a call with a repeated tag and a description naming an award returned:
\* the caller's list has grown and still holds the repeated tag twice
C27_Witness ==
    /\ GivenAwards /\ x_pc = "done" /\ Truthy(x_desc)
    /\ x_json_awards.items = <<"Trending", "Trending">>
    /\ Len(CallersAwards) > 2
    /\ SubSeq(CallersAwards, 1, 2) = <<"Trending", "Trending">>

\* ------------------------------------------------------------------------
\* More properties of ask_assistant
\* ------------------------------------------------------------------------

BlankAward == award = None \/ Strip(award) = ""

\* C28: with an award that is None, empty or only whitespace no award filter
\* runs: the filter loop is never entered and no tier is consulted, the one
\* search carries the raw query, and the selection is the retrieved list with
\* later chunks of a seen id dropped and cut to 5.
C28_BlankAwardMeansNoFilter ==
    BlankAward =>
        /\ award_normalized \in {None, ""}
        /\ pc # "filter" /\ filtered_docs = <<>> /\ fuzzy_consulted = {}
        /\ pc # "start" => Len(searches) = 1 /\ searches[1].text = query
        /\ pc \in {"format", "done"} =>
              LET firsts == FirstPositions(Retrieved)
                  n == IF Cardinality(firsts) < 5 THEN Cardinality(firsts) ELSE 5
              IN docs = [p \in 1..n |-> Retrieved[Nth(firsts, p)]]

\* a call with a whitespace-only award ended: five of the nine candidates were
\* selected after a search for the query
C28_Witness ==
    /\ pc = "done"
    /\ award # None /\ award # "" /\ Strip(award) = ""
    /\ searches[1].text = query
    /\ Len(Retrieved) = 9 /\ Len(docs) = 5

ErrorPrefix == "Error while generating response: "

\* C29: no call of ask_assistant ends with an exception: a call is at one of
\* its steps or has returned, a returned call (and only a returned call) has
\* a string as its result, and a failure of the index,
\* of the deduplication (a candidate without id), of the formatting (a
\* candidate without awards) or of the chain is returned as an error string.
C29_AlwaysReturnsAString ==
    /\ pc \in {"start", "filter", "dedup", "format", "done", "error"}
    /\ parked.pc \in {"start", "filter", "dedup", "format", "done", "error"}
    /\ pc \in {"done", "error"} <=> response # None
    /\ parked.pc \in {"done", "error"} <=> parked.response # None
    /\ pc = "error" => StartsWith(response, ErrorPrefix) /\ Len(response) > Len(ErrorPrefix)

\* both calls have returned an error string: one met a candidate without id,
\* the other a failing index
C29_Witness ==
    /\ pc = "error" /\ response = ErrorPrefix \o "'id'"
    /\ parked.pc = "error" /\ parked.response = ErrorPrefix \o "index"

\* ------------------------------------------------------------------------
\* scrape_all: the loop over the project URLs (src/scraper.py lines 304-335,
\* src/scrape_readytensor_final.py lines 228-257)
\* ------------------------------------------------------------------------

MaxUrls == 2

\* `retries = 3`
retries == 3

\* `urls = sorted(urls)` of a set: distinct project URLs in ascending order,
\* one of them with a trailing slash
UrlLists ==
    LET base == "https://app.readytensor.ai/publications/"
        pool == <<base \o "p1", base \o "p2/", base \o "p3", base \o "p4", base \o "p5">>
    IN {[n \in 1..Len(ix) |-> pool[ix[n]]] :
           ix \in {f \in UNION {[1..m -> 1..MaxUrls] : m \in 0..MaxUrls} :
                      \A a, b \in 1..Len(f) : a < b => f[a] < f[b]}}

\* url.split("/")[-1]
LastSegment(url) == LET parts == SplitOn(url, "/") IN parts[Len(parts)]

\* url.rstrip("/")
RECURSIVE RStripSlash(_)
RStripSlash(url) ==
    IF url # "" /\ Chr(url, Len(url)) = "/" THEN RStripSlash(SubSeq(url, 1, Len(url) - 1))
    ELSE url

\* what extract_project_data can read off a loaded page: the description
\* (never empty, "No description found" at least) and the awards its
\* extract_awards derives from it (scraper.py: also from the badges)
Extractions(sc) ==
    {[publication_description |-> "No description found", awards |-> <<>>],
     [publication_description |-> "Winner of Best Overall Project.",
      awards |-> IF sc = "scraper" THEN <<"best overall project">>
                 ELSE <<"Best Overall Project">>]}
        \cup (IF sc = "scraper"
              THEN {[publication_description |-> "A parser for logs",
                     awards |-> <<"most innovative project">>]}
              ELSE {[publication_description |-> "A parser for logs", awards |-> <<>>]})

\* the dict extract_project_data returns; username, license and title (and
\* the elements of scraper.py) are not followed and stand as null
ExtractProjectData(url, page) ==
    [id |-> LastSegment(RStripSlash(url)),
     publication_description |-> page.publication_description,
     awards |-> page.awards]

\* the dict built when the last attempt failed
FailedRecord(url) ==
    [id |-> LastSegment(url),
     publication_description |-> "Failed after " \o ToString(retries) \o " retries",
     awards |-> <<>>]

\* mutation of IsLastAttempt: no attempt is taken for the last one
IsLastAttemptNever(a) == FALSE

\* `if attempt == retries`
IsLastAttempt(a) == a = retries

\* json.dumps(data) of scrape_readytensor_final.py line 251
JsonDumps(d) ==
    "{\"id\": \"" \o d.id
        \o "\", \"username\": null, \"license\": null, \"title\": null, "
        \o "\"publication_description\": \"" \o d.publication_description
        \o "\", \"awards\": ["
        \o Join([n \in 1..Len(d.awards) |-> "\"" \o d.awards[n] \o "\""], ", ") \o "]}"

\* matches_award, with the AWARD_KEYWORDS of the script
MatchesAward(sc, text) ==
    LET AWARD_KEYWORDS ==
            {"best overall project", "best technical implementation",
             "most innovative project", "most engaging presentation",
             "outstanding solution implementation", "most promising innovation",
             "best ai tool innovation", "distinguished applied solution showcase",
             "distinguished technical deep-dive", "distinguished social impact innovation",
             "best creative ai project", "ai research excellence",
             "distinguished implementation guide", "excellence in educational content",
             "exceptional dataset contribution"}
                \cup (IF sc = "scraper" THEN {"the imagenet competition in 2012"}
                      ELSE {"winner", "award", "challenge", "hackathon"})
        lower == Lower(text)
    IN Truthy(text) /\ \E keyword \in AWARD_KEYWORDS : Contains(lower, keyword)

\* the test that puts a record into award_records: scraper.py line 328,
\* scrape_readytensor_final.py line 251
AwardTagged(sc, d) ==
    IF sc = "scraper"
    THEN d.awards # <<>> \/ MatchesAward(sc, Lower(d.publication_description))
    ELSE MatchesAward(sc, Lower(JsonDumps(d)))

\* wipe_outputs and the two empty lists; the pagination that collects the URLs
\* is not followed, its result is the list `urls`
ScrapeBegin ==
    /\ s_pc = "start"
    /\ output_all' = NoFile /\ output_awards' = NoFile
    /\ all_records' = <<>> /\ award_records' = <<>>
    /\ s_pc' = "url"
    /\ UNCHANGED <<script, urls, url_k, attempt, data, goto_log>>
    /\ UNCHANGED <<askVars, parked, backendVars, normVars, extractVars, ingestVars>>

\* `for url in urls: retries = 3; data = None` and the head of the retry loop
NextUrl ==
    /\ s_pc = "url"
    /\ url_k <= Len(urls)
    /\ data' = NoData
    /\ attempt' = 1
    /\ s_pc' = "goto"
    /\ UNCHANGED <<script, urls, url_k, all_records, award_records, goto_log,
                   output_all, output_awards>>
    /\ UNCHANGED <<askVars, parked, backendVars, normVars, extractVars, ingestVars>>

\* page.goto returns, extract_project_data returns its dict, break
PageLoads ==
    /\ s_pc = "goto"
    /\ attempt <= retries
    /\ \E page \in Extractions(script) : data' = ExtractProjectData(urls[url_k], page)
    /\ goto_log' = Append(goto_log, [k |-> url_k, attempt |-> attempt, ok |-> TRUE])
    /\ s_pc' = "append"
    /\ UNCHANGED <<script, urls, url_k, attempt, all_records, award_records,
                   output_all, output_awards>>
    /\ UNCHANGED <<askVars, parked, backendVars, normVars, extractVars, ingestVars>>

\* page.goto raises: the except clause, and the next attempt if there is one
PageFails ==
    /\ s_pc = "goto"
    /\ attempt <= retries
    /\ goto_log' = Append(goto_log, [k |-> url_k, attempt |-> attempt, ok |-> FALSE])
    /\ data' = IF IsLastAttempt(attempt) THEN FailedRecord(urls[url_k]) ELSE data
    /\ attempt' = attempt + 1
    /\ s_pc' = IF attempt + 1 <= retries THEN "goto" ELSE "append"
    /\ UNCHANGED <<script, urls, url_k, all_records, award_records, output_all, output_awards>>
    /\ UNCHANGED <<askVars, parked, backendVars, normVars, extractVars, ingestVars>>

\* `if data:` and the two appends
AppendRecord ==
    /\ s_pc = "append"
    /\ IF data # NoData
       THEN /\ all_records' = Append(all_records, data)
            /\ award_records' = IF AwardTagged(script, data) THEN Append(award_records, data)
                                ELSE award_records
       ELSE UNCHANGED <<all_records, award_records>>
    /\ url_k' = url_k + 1
    /\ s_pc' = "url"
    /\ UNCHANGED <<script, urls, attempt, data, goto_log, output_all, output_awards>>
    /\ UNCHANGED <<askVars, parked, backendVars, normVars, extractVars, ingestVars>>

\* the loop over the URLs is over: the two save_json calls
SaveOutputs ==
    /\ s_pc = "url"
    /\ url_k > Len(urls)
    /\ output_all' = [exists |-> TRUE, records |-> all_records]
    /\ output_awards' = [exists |-> TRUE, records |-> award_records]
    /\ s_pc' = "saved"
    /\ UNCHANGED <<script, urls, url_k, attempt, data, all_records, award_records, goto_log>>
    /\ UNCHANGED <<askVars, parked, backendVars, normVars, extractVars, ingestVars>>

\* a run of either script over up to MaxUrls URLs, the output files of an
\* earlier run being there
ScrapeInit ==
    /\ script \in {"scraper", "final"}
    /\ urls \in UrlLists
    /\ output_all = [exists |-> TRUE, records |-> <<FailedRecord("x/old")>>]
    /\ output_awards = [exists |-> TRUE, records |-> <<>>]
    /\ url_k = 1 /\ attempt = 1 /\ data = NoData
    /\ all_records = <<>> /\ award_records = <<>> /\ goto_log = <<>>
    /\ s_pc = "start"
    /\ AskIdle /\ BackendIdle /\ NormIdle /\ ExtractIdle /\ IngestIdle

ScrapeNext ==
    ScrapeBegin \/ NextUrl \/ PageLoads \/ PageFails \/ AppendRecord \/ SaveOutputs

ScrapeSpec == ScrapeInit /\ [][ScrapeNext]_vars

\* a is b with some elements left out
RECURSIVE IsSubSeq(_, _)
IsSubSeq(a, b) ==
    IF a = <<>> THEN TRUE
    ELSE IF b = <<>> THEN FALSE
    ELSE IF Head(a) = Head(b) THEN IsSubSeq(Tail(a), Tail(b))
    ELSE IsSubSeq(a, Tail(b))

\* the page loads attempted for the k-th URL, in order
GotosOf(k) == LET IsOfK(e) == e.k = k IN SelectSeq(goto_log, IsOfK)

\* C30: every URL gets at most 3 page loads, numbered 1, 2, 3, and none after
\* one that succeeded; once a URL is done all_records holds exactly one
\* record per URL done, in the order of the URLs: the extracted one if a
\* load succeeded, the failure record after three failed loads; the award
\* records are a sub-sequence of all records, in memory and in the two files.
C30_RetryLoop ==
    /\ \A k \in 1..Len(urls) :
          /\ Len(GotosOf(k)) <= 3
          /\ \A n \in 1..Len(GotosOf(k)) :
                /\ GotosOf(k)[n].attempt = n
                /\ GotosOf(k)[n].ok => n = Len(GotosOf(k))
    /\ s_pc \in {"url", "saved"} =>
          /\ Len(all_records) = url_k - 1
          /\ \A k \in 1..(url_k - 1) :
                LET gotos == GotosOf(k)
                IN /\ gotos # <<>>
                   /\ IF gotos[Len(gotos)].ok
                      THEN /\ all_records[k].id \in {"p1", "p2", "p3", "p4", "p5"}
                           /\ Contains(urls[k], "/" \o all_records[k].id)
                           /\ all_records[k].publication_description
                                 # "Failed after 3 retries"
                      ELSE /\ Len(gotos) = 3
                           /\ all_records[k].publication_description
                                 = "Failed after 3 retries"
                           /\ all_records[k].awards = <<>>
    /\ IsSubSeq(award_records, all_records)
    /\ s_pc = "saved" =>
          /\ url_k = Len(urls) + 1
          /\ output_all = [exists |-> TRUE, records |-> all_records]
          /\ output_awards.exists
          /\ IsSubSeq(output_awards.records, output_all.records)

\* a run over two URLs was saved: one page loaded at the third attempt, the
\* other never, and one of the two records went to the awards file
C30_Witness ==
    /\ s_pc = "saved"
    /\ Len(urls) = 2
    /\ \E a, b \in 1..2 :
          /\ Len(GotosOf(a)) = 3 /\ GotosOf(a)[3].ok
          /\ Len(GotosOf(b)) = 3 /\ ~GotosOf(b)[3].ok
    /\ Len(output_all.records) = 2
    /\ Len(output_awards.records) = 1

====
